---------------------------- MODULE Spec2Model ----------------------------
(***************************************************************************)
(* Model of the AI News Tracker article pipeline (news-tracker/):          *)
(* rss-proxy.js (loadFeeds, fetchFeed, normalizeArticle, the classifier)   *)
(* and storage.js (the localStorage cache).                                *)
(*                                                                         *)
(* Text is modelled as a sequence of one-character strings, so substring   *)
(* tests, lowercasing and the 32-bit link hash are computed as the code    *)
(* computes them.                                                          *)
(***************************************************************************)
EXTENDS Integers, Sequences, FiniteSets, TLC

(***************************************************************************)
(* Bounds of the model.                                                    *)
(***************************************************************************)
\* number of clock ticks the model follows
MaxTicks == 3
\* milliseconds per clock tick (two ticks make one cache window)
TickMs == 1800000
\* the clock readings of the model
Times == {k * TickMs : k \in 0..MaxTicks}

(***************************************************************************)
(* Characters and strings.                                                 *)
(***************************************************************************)
\* printable ASCII, code 32 first (code 96, the backquote, is written "grave")
Ascii == <<" ","!","\"","#","$","%","&","'","(",")","*","+",",","-",".","/","0","1","2","3","4","5","6","7","8","9",":",";","<","=",">","?","@","A","B","C","D","E","F","G","H","I","J","K","L","M","N","O","P","Q","R","S","T","U","V","W","X","Y","Z","[","\\","]","^","_","grave","a","b","c","d","e","f","g","h","i","j","k","l","m","n","o","p","q","r","s","t","u","v","w","x","y","z","{","|","}","~">>

\* String.prototype.charCodeAt for one character, as a table
CodeTable == [c \in {Ascii[i] : i \in 1..Len(Ascii)} |->
                 31 + (CHOOSE i \in 1..Len(Ascii) : Ascii[i] = c)]

CharCode(c) == CodeTable[c]

FromCharCode(n) == Ascii[n - 31]

\* String.prototype.toLowerCase and toUpperCase for one character, as tables
LowerTable == [c \in DOMAIN CodeTable |->
                  IF CodeTable[c] >= 65 /\ CodeTable[c] <= 90
                  THEN FromCharCode(CodeTable[c] + 32) ELSE c]

UpperTable == [c \in DOMAIN CodeTable |->
                  IF CodeTable[c] >= 97 /\ CodeTable[c] <= 122
                  THEN FromCharCode(CodeTable[c] - 32) ELSE c]

LowerChar(c) == LowerTable[c]

UpperChar(c) == UpperTable[c]

toLowerCase(s) == [i \in 1..Len(s) |-> LowerChar(s[i])]

\* the index of the first occurrence of kw in s at or after position from, 0 if none
IndexOfFrom(s, kw, from) ==
    LET hits == {i \in from..(Len(s) - Len(kw) + 1) : SubSeq(s, i, i + Len(kw) - 1) = kw}
    IN  IF hits = {} THEN 0 ELSE CHOOSE i \in hits : \A j \in hits : i <= j

IndexOf(s, kw) == IndexOfFrom(s, kw, 1)

\* String.prototype.includes
includes(s, kw) == IndexOf(s, kw) # 0

startsWith(s, p) == Len(s) >= Len(p) /\ SubSeq(s, 1, Len(p)) = p

\* String.prototype.replace(pattern, "") with a string pattern: the first occurrence only
RemoveFirst(s, p) ==
    LET i == IndexOf(s, p)
    IN  IF i = 0 THEN s ELSE SubSeq(s, 1, i - 1) \o SubSeq(s, i + Len(p), Len(s))

\* String.prototype.split with a one-character separator
RECURSIVE split(_, _)
split(s, sep) ==
    LET i == IndexOf(s, <<sep>>)
    IN  IF i = 0 THEN <<s>>
        ELSE <<SubSeq(s, 1, i - 1)>> \o split(SubSeq(s, i + 1, Len(s)), sep)

\* Array.prototype.join
RECURSIVE join(_, _)
join(parts, sep) ==
    IF parts = <<>> THEN <<>>
    ELSE IF Len(parts) = 1 THEN parts[1]
    ELSE parts[1] \o sep \o join(Tail(parts), sep)

\* a falsy string is the empty string (||-fallbacks of the code)
Or(a, b) == IF a # <<>> THEN a ELSE b

(***************************************************************************)
(* Dates.  A pubDate string is modelled by what Date parsing makes of it:  *)
(* the instant it denotes, or no instant (an unparseable or missing        *)
(* string).                                                                *)
(***************************************************************************)
Instant(t) == [kind |-> "instant", t |-> t]
NoDate == [kind |-> "missing", t |-> 0]
BadDate == [kind |-> "text", t |-> 0]

\* new Date(ms).toISOString()
toISOString(ms) == Instant(ms)

\* new Date(pubDate) as a number: NaN for an unparseable string
DateValue(p) == [nan |-> p.kind # "instant", v |-> IF p.kind = "instant" THEN p.t ELSE 0]

(***************************************************************************)
(* Normalizer (rss-proxy.js).                                              *)
(***************************************************************************)
Limb == 65536

\* one round of generateArticleId's loop on the 32-bit hash, kept as two 16-bit
\* limbs <<hi, lo>> of its two's complement: hash = (hash * 31 + char) mod 2^32
HashStep(h, c) ==
    LET x == 31 * h[2] + c
    IN  <<(31 * h[1] + (x \div Limb)) % Limb, x % Limb>>

RECURSIVE HashFrom(_, _)
HashFrom(h, url) ==
    IF url = <<>> THEN h ELSE HashFrom(HashStep(h, CharCode(Head(url))), Tail(url))

\* Math.abs of the signed 32-bit value, again as limbs (2^31 is <<32768, 0>>)
AbsLimbs(h) ==
    IF h[1] < 32768 THEN h
    ELSE IF h[2] = 0 THEN <<Limb - h[1], 0>>
    ELSE <<Limb - h[1] - 1, Limb - h[2]>>

Digits36 == <<"0","1","2","3","4","5","6","7","8","9","a","b","c","d","e","f","g","h","i","j","k","l","m","n","o","p","q","r","s","t","u","v","w","x","y","z">>

\* Number.prototype.toString(36) of the non-negative number hi * 2^16 + lo
RECURSIVE ToString36(_)
ToString36(m) ==
    LET t  == (m[1] % 36) * Limb + m[2]
        q  == <<m[1] \div 36, t \div 36>>
    IN  IF m[1] = 0 /\ m[2] < 36 THEN <<Digits36[m[2] + 1]>>
        ELSE ToString36(q) \o <<Digits36[(t % 36) + 1]>>

generateArticleId(url) ==
    <<"a","r","t","i","c","l","e","-">> \o ToString36(AbsLimbs(HashFrom(<<0, 0>>, url)))

\* html.replace(/<[^>]*>/g, ''): each "<" up to the next ">" is removed
RECURSIVE StripTags(_)
StripTags(s) ==
    LET i == IndexOf(s, <<"<">>)
        j == IF i = 0 THEN 0 ELSE IndexOfFrom(s, <<">">>, i + 1)
    IN  IF j = 0 THEN s
        ELSE SubSeq(s, 1, i - 1) \o StripTags(SubSeq(s, j + 1, Len(s)))

\* the character references the model decodes (textarea.innerHTML / .value)
Entities ==
    << <<<<"&","a","m","p",";">>, "&">>, <<<<"&","l","t",";">>, "<">>, <<<<"&","g","t",";">>, ">">>,
       <<<<"&","q","u","o","t",";">>, "\"">>, <<<<"&","#","3","9",";">>, "'">> >>

RECURSIVE DecodeEntities(_)
DecodeEntities(s) ==
    IF s = <<>> THEN <<>>
    ELSE LET hit == {k \in 1..Len(Entities) : startsWith(s, Entities[k][1])}
         IN  IF hit = {} THEN <<Head(s)>> \o DecodeEntities(Tail(s))
             ELSE LET k == CHOOSE k \in hit : TRUE
                  IN  <<Entities[k][2]>>
                        \o DecodeEntities(SubSeq(s, Len(Entities[k][1]) + 1, Len(s)))

maxLength == 200

cleanDescription(html) ==
    LET decoded == DecodeEntities(StripTags(html))
    IN  IF Len(decoded) > maxLength
        THEN SubSeq(decoded, 1, maxLength) \o <<".",".",".">>
        ELSE Or(decoded, <<"N","o"," ","d","e","s","c","r","i","p","t","i","o","n"," ","a","v","a","i","l","a","b","l","e",".">>)

\* new URL(url).hostname for the URLs the model uses: an http(s) scheme, "//",
\* then the host up to the first "/", "?", "#" or ":"; <<>> stands for the
\* TypeError of an unparseable URL
Hostname(url) ==
    LET low  == toLowerCase(url)
        rest == IF startsWith(low, <<"h","t","t","p","s",":","/","/">>) THEN SubSeq(low, 9, Len(low))
                ELSE IF startsWith(low, <<"h","t","t","p",":","/","/">>) THEN SubSeq(low, 8, Len(low))
                ELSE <<>>
        ends == {i \in 1..Len(rest) : rest[i] \in {"/", "?", "#", ":"}}
        stop == IF ends = {} THEN Len(rest) + 1 ELSE CHOOSE i \in ends : \A j \in ends : i <= j
    IN  SubSeq(rest, 1, stop - 1)

Capitalize(word) ==
    IF word = <<>> THEN <<>> ELSE <<UpperChar(word[1])>> \o Tail(word)

extractSource(url) ==
    LET host == Hostname(url)
        hostname == RemoveFirst(host, <<"w","w","w",".">>)
        words == split(split(hostname, ".")[1], "-")
    IN  IF host = <<>> THEN <<"U","n","k","n","o","w","n"," ","S","o","u","r","c","e">>
        ELSE join([i \in 1..Len(words) |-> Capitalize(words[i])], <<" ">>)

\* a faulty variant: the id is derived from the link and the time of the call
normalizeArticleTimedId(rawArticle, t) ==
    [ id          |-> generateArticleId(Or(rawArticle.link, rawArticle.guid)
                                            \o ToString36(<<0, t \div 1000>>)),
      title       |-> Or(rawArticle.title, <<"U","n","t","i","t","l","e","d">>),
      description |-> cleanDescription(Or(rawArticle.description, rawArticle.content)),
      link        |-> Or(rawArticle.link, Or(rawArticle.guid, <<"#">>)),
      pubDate     |-> IF rawArticle.pubDate.kind = "missing" THEN toISOString(t)
                      ELSE rawArticle.pubDate,
      source      |-> extractSource(rawArticle.link),
      category    |-> "industry-news",
      isFavorite  |-> FALSE ]

\* normalizeArticle(rawArticle), called at clock reading t
normalizeArticle(rawArticle, t) ==
    [ id          |-> generateArticleId(Or(rawArticle.link, rawArticle.guid)),
      title       |-> Or(rawArticle.title, <<"U","n","t","i","t","l","e","d">>),
      description |-> cleanDescription(Or(rawArticle.description, rawArticle.content)),
      link        |-> Or(rawArticle.link, Or(rawArticle.guid, <<"#">>)),
      pubDate     |-> IF rawArticle.pubDate.kind = "missing" THEN toISOString(t)
                      ELSE rawArticle.pubDate,
      source      |-> extractSource(rawArticle.link),
      category    |-> "industry-news",
      isFavorite  |-> FALSE ]

(***************************************************************************)
(* Classifier (rss-proxy.js, the filters part).                            *)
(***************************************************************************)
\* CATEGORIES in definition order (Object.entries order); display names omitted
CATEGORIES ==
    << [id |-> "all", keywords |-> <<>>],
       [id |-> "ai-design-tools", keywords |->
          << <<"m","i","d","j","o","u","r","n","e","y">>, <<"d","a","l","l","-","e">>, <<"d","a","l","l"," ","e">>, <<"d","a","l","l","e">>, <<"s","t","a","b","l","e"," ","d","i","f","f","u","s","i","o","n">>,
             <<"g","e","n","e","r","a","t","i","v","e"," ","a","i">>, <<"a","i"," ","t","o","o","l">>, <<"t","e","x","t"," ","t","o"," ","i","m","a","g","e">>, <<"i","m","a","g","e"," ","g","e","n","e","r","a","t","i","o","n">>,
             <<"a","i"," ","s","o","f","t","w","a","r","e">>, <<"d","e","s","i","g","n"," ","t","o","o","l">>, <<"f","i","r","e","f","l","y">>, <<"l","e","o","n","a","r","d","o"," ","a","i">> >>],
       [id |-> "visualization", keywords |->
          << <<"r","e","n","d","e","r","i","n","g">>, <<"v","i","s","u","a","l","i","z","a","t","i","o","n">>, <<"v","i","s","u","a","l","i","s","a","t","i","o","n">>, <<"v","r","a","y">>, <<"v","-","r","a","y">>,
             <<"3","d"," ","r","e","n","d","e","r">>, <<"c","g","i">>, <<"3","d"," ","v","i","s","u","a","l","i","z","a","t","i","o","n">>, <<"l","u","m","i","o","n">>, <<"e","n","s","c","a","p","e">>,
             <<"t","w","i","n","m","o","t","i","o","n">>, <<"u","n","r","e","a","l"," ","e","n","g","i","n","e">>, <<"p","h","o","t","o","r","e","a","l","i","s","t","i","c">>, <<"3","d"," ","m","o","d","e","l">> >>],
       [id |-> "automation", keywords |->
          << <<"a","u","t","o","m","a","t","i","o","n">>, <<"w","o","r","k","f","l","o","w">>, <<"p","r","o","d","u","c","t","i","v","i","t","y">>, <<"a","i"," ","a","g","e","n","t">>, <<"a","u","t","o","m","a","t","e">>,
             <<"e","f","f","i","c","i","e","n","c","y">>, <<"p","r","o","c","e","s","s"," ","a","u","t","o","m","a","t","i","o","n">>, <<"t","a","s","k"," ","a","u","t","o","m","a","t","i","o","n">>,
             <<"m","a","c","h","i","n","e"," ","l","e","a","r","n","i","n","g">>, <<"a","r","t","i","f","i","c","i","a","l"," ","i","n","t","e","l","l","i","g","e","n","c","e"," ","w","o","r","k","f","l","o","w">> >>],
       [id |-> "architecture-ai", keywords |->
          << <<"a","r","c","h","i","t","e","c","t","u","r","e">>, <<"a","r","c","h","i","t","e","c","t","u","r","a","l"," ","d","e","s","i","g","n">>, <<"b","u","i","l","d","i","n","g"," ","d","e","s","i","g","n">>, <<"b","i","m">>,
             <<"p","a","r","a","m","e","t","r","i","c"," ","d","e","s","i","g","n">>, <<"g","e","n","e","r","a","t","i","v","e"," ","d","e","s","i","g","n">>, <<"c","o","m","p","u","t","a","t","i","o","n","a","l"," ","d","e","s","i","g","n">>,
             <<"a","r","c","h","i","t","e","c","t">>, <<"b","u","i","l","d","i","n","g">>, <<"c","o","n","s","t","r","u","c","t","i","o","n">>, <<"r","e","v","i","t"," ","a","i">>, <<"g","r","a","s","s","h","o","p","p","e","r">> >>],
       [id |-> "interior-design-ai", keywords |->
          << <<"i","n","t","e","r","i","o","r"," ","d","e","s","i","g","n">>, <<"i","n","t","e","r","i","o","r">>, <<"f","u","r","n","i","t","u","r","e">>, <<"s","p","a","c","e"," ","p","l","a","n","n","i","n","g">>,
             <<"r","o","o","m"," ","d","e","s","i","g","n">>, <<"i","n","t","e","r","i","o","r"," ","a","i">>, <<"h","o","m","e"," ","d","e","s","i","g","n">>, <<"d","e","c","o","r">>,
             <<"i","n","t","e","r","i","o","r"," ","v","i","s","u","a","l","i","z","a","t","i","o","n">> >>],
       [id |-> "industry-news", keywords |->
          << <<"i","n","d","u","s","t","r","y">>, <<"m","a","r","k","e","t">>, <<"b","u","s","i","n","e","s","s">>, <<"t","e","c","h","n","o","l","o","g","y">>, <<"i","n","n","o","v","a","t","i","o","n">>,
             <<"n","e","w","s">>, <<"a","n","n","o","u","n","c","e","m","e","n","t">>, <<"l","a","u","n","c","h">>, <<"c","o","m","p","a","n","y">>, <<"s","t","a","r","t","u","p">> >>],
       [id |-> "favorites", keywords |-> <<>>] >>

AI_KEYWORDS ==
    << <<"a","i">>, <<"a","r","t","i","f","i","c","i","a","l"," ","i","n","t","e","l","l","i","g","e","n","c","e">>, <<"m","a","c","h","i","n","e"," ","l","e","a","r","n","i","n","g">>, <<"m","l">>,
       <<"g","e","n","e","r","a","t","i","v","e">>, <<"n","e","u","r","a","l">>, <<"d","e","e","p"," ","l","e","a","r","n","i","n","g">>, <<"a","l","g","o","r","i","t","h","m">>,
       <<"a","u","t","o","m","a","t","e","d">>, <<"a","u","t","o","m","a","t","i","o","n">>, <<"c","o","m","p","u","t","a","t","i","o","n","a","l">>, <<"i","n","t","e","l","l","i","g","e","n","t">>,
       <<"m","i","d","j","o","u","r","n","e","y">>, <<"d","a","l","l","-","e">>, <<"d","a","l","l","e">>, <<"s","t","a","b","l","e"," ","d","i","f","f","u","s","i","o","n">>,
       <<"c","h","a","t","g","p","t">>, <<"g","p","t">>, <<"l","l","m">>, <<"l","a","r","g","e"," ","l","a","n","g","u","a","g","e"," ","m","o","d","e","l">> >>

\* a faulty variant: the description is not looked at
ContentTitleOnly(article) == toLowerCase(article.title)

\* `${article.title} ${article.description}`.toLowerCase()
Content(article) == toLowerCase(article.title \o <<" ">> \o article.description)

\* keywords.some(keyword => content.includes(keyword.toLowerCase()))
SomeKeyword(keywords, content) ==
    \E k \in 1..Len(keywords) : includes(content, toLowerCase(keywords[k]))

isAIRelated(article) == SomeKeyword(AI_KEYWORDS, Content(article))

\* the value categorizeArticle returns for a non-AI article
Null == [null |-> TRUE]

\* a faulty variant: the last matching category wins
categorizeArticleLastMatch(article) ==
    LET content == Content(article)
        hits == {c \in 1..Len(CATEGORIES) :
                    /\ CATEGORIES[c].id \notin {"all", "favorites"}
                    /\ SomeKeyword(CATEGORIES[c].keywords, content)}
    IN  IF ~isAIRelated(article) THEN Null
        ELSE IF hits # {}
        THEN [article EXCEPT !.category =
                 CATEGORIES[CHOOSE c \in hits : \A d \in hits : c >= d].id]
        ELSE [article EXCEPT !.category = "industry-news"]

\* a faulty variant: an article that is not AI-related is kept as industry news
categorizeArticleNoGate(article) ==
    LET content == Content(article)
        hits == {c \in 1..Len(CATEGORIES) :
                    /\ CATEGORIES[c].id \notin {"all", "favorites"}
                    /\ SomeKeyword(CATEGORIES[c].keywords, content)}
    IN  IF hits # {}
        THEN [article EXCEPT !.category =
                 CATEGORIES[CHOOSE c \in hits : \A d \in hits : c <= d].id]
        ELSE [article EXCEPT !.category = "industry-news"]

categorizeArticle(article) ==
    LET content == Content(article)
        hits == {c \in 1..Len(CATEGORIES) :
                    /\ CATEGORIES[c].id \notin {"all", "favorites"}
                    /\ SomeKeyword(CATEGORIES[c].keywords, content)}
    IN  IF ~isAIRelated(article) THEN Null
        ELSE IF hits # {}
        THEN [article EXCEPT !.category =
                 CATEGORIES[CHOOSE c \in hits : \A d \in hits : c <= d].id]
        ELSE [article EXCEPT !.category = "industry-news"]

(***************************************************************************)
(* The built-in sample set (getMockArticles), produced at clock reading t. *)
(***************************************************************************)
DayMs == 86400000

Mock(n, title, description, link, source, category, t) ==
    [ id          |-> <<"m","o","c","k","-">> \o <<Digits36[n + 1]>>,
      title       |-> title,
      description |-> description,
      link        |-> link,
      pubDate     |-> toISOString(t - n * DayMs),
      source      |-> source,
      category    |-> category,
      isFavorite  |-> FALSE ]

\* (the dash of the last description is a non-ASCII dash in the source)
getMockArticles(t) ==
    << Mock(1, <<"A","I","-","P","o","w","e","r","e","d"," ","P","a","r","a","m","e","t","r","i","c"," ","D","e","s","i","g","n",":"," ","T","h","e"," ","F","u","t","u","r","e"," ","o","f"," ","A","r","c","h","i","t","e","c","t","u","r","e">>,
            <<"E","x","p","l","o","r","e"," ","h","o","w"," ","a","r","t","i","f","i","c","i","a","l"," ","i","n","t","e","l","l","i","g","e","n","c","e"," ","i","s"," ","r","e","v","o","l","u","t","i","o","n","i","z","i","n","g"," ","p","a","r","a","m","e","t","r","i","c"," ","d","e","s","i","g","n"," ","w","o","r","k","f","l","o","w","s",","," ","e","n","a","b","l","i","n","g"," ","a","r","c","h","i","t","e","c","t","s"," ","t","o"," ","g","e","n","e","r","a","t","e"," ","c","o","m","p","l","e","x",","," ","o","p","t","i","m","i","z","e","d"," ","s","t","r","u","c","t","u","r","e","s"," ","i","n"," ","s","e","c","o","n","d","s",".">>,
            <<"h","t","t","p","s",":","/","/","w","w","w",".","a","r","c","h","d","a","i","l","y",".","c","o","m">>, <<"A","r","c","h","D","a","i","l","y">>, "architecture-ai", t),
       Mock(2, <<"M","i","d","j","o","u","r","n","e","y"," ","7"," ","R","e","l","e","a","s","e","d",":"," ","G","a","m","e","-","C","h","a","n","g","i","n","g"," ","F","e","a","t","u","r","e","s"," ","f","o","r"," ","A","r","c","h","i","t","e","c","t","s">>,
            <<"T","h","e"," ","l","a","t","e","s","t"," ","v","e","r","s","i","o","n"," ","o","f"," ","M","i","d","j","o","u","r","n","e","y"," ","i","n","t","r","o","d","u","c","e","s"," ","a","r","c","h","i","t","e","c","t","u","r","a","l"," ","a","c","c","u","r","a","c","y"," ","i","m","p","r","o","v","e","m","e","n","t","s"," ","a","n","d"," ","b","e","t","t","e","r"," ","c","o","n","t","r","o","l"," ","o","v","e","r"," ","s","p","a","t","i","a","l"," ","r","e","l","a","t","i","o","n","s","h","i","p","s",","," ","m","a","k","i","n","g"," ","i","t"," ","a","n"," ","e","s","s","e","n","t","i","a","l"," ","t","o","o","l"," ","f","o","r"," ","c","o","n","c","e","p","t"," ","v","i","s","u","a","l","i","z","a","t","i","o","n",".">>,
            <<"h","t","t","p","s",":","/","/","w","w","w",".","d","e","z","e","e","n",".","c","o","m">>, <<"D","e","z","e","e","n">>, "ai-design-tools", t),
       Mock(3, <<"R","e","a","l","-","T","i","m","e"," ","R","e","n","d","e","r","i","n","g"," ","w","i","t","h"," ","A","I",":"," ","E","n","s","c","a","p","e"," ","v","s"," ","L","u","m","i","o","n"," ","A","I">>,
            <<"A"," ","c","o","m","p","r","e","h","e","n","s","i","v","e"," ","c","o","m","p","a","r","i","s","o","n"," ","o","f"," ","A","I","-","e","n","h","a","n","c","e","d"," ","r","e","a","l","-","t","i","m","e"," ","r","e","n","d","e","r","i","n","g"," ","t","o","o","l","s"," ","t","h","a","t"," ","a","r","e"," ","t","r","a","n","s","f","o","r","m","i","n","g"," ","a","r","c","h","i","t","e","c","t","u","r","a","l"," ","v","i","s","u","a","l","i","z","a","t","i","o","n"," ","w","o","r","k","f","l","o","w","s",".">>,
            <<"h","t","t","p","s",":","/","/","a","r","c","h","i","t","i","z","e","r",".","c","o","m">>, <<"A","r","c","h","i","t","i","z","e","r">>, "visualization", t),
       Mock(4, <<"A","u","t","o","m","a","t","i","n","g"," ","B","I","M"," ","W","o","r","k","f","l","o","w","s",":"," ","A","I"," ","A","g","e","n","t","s"," ","f","o","r"," ","R","e","v","i","t">>,
            <<"L","e","a","r","n"," ","h","o","w"," ","c","u","s","t","o","m"," ","A","I"," ","a","g","e","n","t","s"," ","a","r","e"," ","s","t","r","e","a","m","l","i","n","i","n","g"," ","r","e","p","e","t","i","t","i","v","e"," ","t","a","s","k","s"," ","i","n"," ","R","e","v","i","t",","," ","s","a","v","i","n","g"," ","a","r","c","h","i","t","e","c","t","u","r","a","l"," ","f","i","r","m","s"," ","t","h","o","u","s","a","n","d","s"," ","o","f"," ","h","o","u","r","s"," ","a","n","n","u","a","l","l","y",".">>,
            <<"h","t","t","p","s",":","/","/","b","l","o","g",".","t","e","s","t","f","i","t",".","i","o">>, <<"T","e","s","t","F","i","t">>, "automation", t),
       Mock(5, <<"I","n","t","e","r","i","o","r"," ","D","e","s","i","g","n"," ","A","I",":"," ","T","r","a","n","s","f","o","r","m"," ","S","p","a","c","e","s"," ","w","i","t","h"," ","M","a","c","h","i","n","e"," ","L","e","a","r","n","i","n","g">>,
            <<"A","I","-","p","o","w","e","r","e","d"," ","i","n","t","e","r","i","o","r"," ","d","e","s","i","g","n"," ","t","o","o","l","s"," ","a","r","e"," ","e","n","a","b","l","i","n","g"," ","d","e","s","i","g","n","e","r","s"," ","t","o"," ","g","e","n","e","r","a","t","e"," ","p","h","o","t","o","r","e","a","l","i","s","t","i","c"," ","r","o","o","m"," ","l","a","y","o","u","t","s"," ","a","n","d"," ","f","u","r","n","i","t","u","r","e"," ","a","r","r","a","n","g","e","m","e","n","t","s"," ","i","n"," ","m","i","n","u","t","e","s",".">>,
            <<"h","t","t","p","s",":","/","/","w","w","w",".","d","e","z","e","e","n",".","c","o","m">>, <<"D","e","z","e","e","n">>, "interior-design-ai", t),
       Mock(6, <<"S","t","a","b","l","e"," ","D","i","f","f","u","s","i","o","n"," ","f","o","r"," ","A","r","c","h","i","t","e","c","t","u","r","e",":"," ","C","o","m","p","l","e","t","e"," ","G","u","i","d","e">>,
            <<"M","a","s","t","e","r"," ","S","t","a","b","l","e"," ","D","i","f","f","u","s","i","o","n"," ","f","o","r"," ","a","r","c","h","i","t","e","c","t","u","r","a","l"," ","v","i","s","u","a","l","i","z","a","t","i","o","n"," ","w","i","t","h"," ","t","h","i","s"," ","c","o","m","p","r","e","h","e","n","s","i","v","e"," ","g","u","i","d","e"," ","c","o","v","e","r","i","n","g"," ","p","r","o","m","p","t","s",","," ","m","o","d","e","l","s",","," ","a","n","d"," ","b","e","s","t"," ","p","r","a","c","t","i","c","e","s",".">>,
            <<"h","t","t","p","s",":","/","/","w","w","w",".","a","r","c","h","d","a","i","l","y",".","c","o","m">>, <<"A","r","c","h","D","a","i","l","y">>, "ai-design-tools", t),
       Mock(7, <<"A","I"," ","i","n"," ","C","o","n","s","t","r","u","c","t","i","o","n",":"," ","F","r","o","m"," ","D","e","s","i","g","n"," ","t","o"," ","B","u","i","l","t"," ","R","e","a","l","i","t","y">>,
            <<"H","o","w"," ","a","r","t","i","f","i","c","i","a","l"," ","i","n","t","e","l","l","i","g","e","n","c","e"," ","i","s"," ","b","r","i","d","g","i","n","g"," ","t","h","e"," ","g","a","p"," ","b","e","t","w","e","e","n"," ","a","r","c","h","i","t","e","c","t","u","r","a","l"," ","d","e","s","i","g","n"," ","a","n","d"," ","c","o","n","s","t","r","u","c","t","i","o","n",","," ","i","m","p","r","o","v","i","n","g"," ","a","c","c","u","r","a","c","y"," ","a","n","d"," ","r","e","d","u","c","i","n","g"," ","c","o","s","t","s",".">>,
            <<"h","t","t","p","s",":","/","/","a","r","c","h","i","t","i","z","e","r",".","c","o","m">>, <<"A","r","c","h","i","t","i","z","e","r">>, "industry-news", t),
       Mock(8, <<"G","e","n","e","r","a","t","i","v","e"," ","A","I"," ","R","e","s","h","a","p","i","n","g"," ","A","r","c","h","i","t","e","c","t","u","r","a","l"," ","V","i","s","u","a","l","i","z","a","t","i","o","n">>,
            <<"G","e","n","e","r","a","t","i","v","e"," ","A","I"," ","i","s"," ","n","o","t"," ","r","e","p","l","a","c","i","n","g"," ","a","r","c","h","i","t","e","c","t","s","-","i","t","'","s"," ","e","m","p","o","w","e","r","i","n","g"," ","t","h","e","m"," ","t","o"," ","e","x","p","l","o","r","e"," ","m","o","r","e"," ","d","e","s","i","g","n"," ","i","t","e","r","a","t","i","o","n","s"," ","a","n","d"," ","c","r","e","a","t","e"," ","s","t","u","n","n","i","n","g"," ","v","i","s","u","a","l","i","z","a","t","i","o","n","s"," ","f","a","s","t","e","r"," ","t","h","a","n"," ","e","v","e","r",".">>,
            <<"h","t","t","p","s",":","/","/","w","w","w",".","t","e","c","h","t","i","m","e","s",".","c","o","m">>, <<"T","e","c","h"," ","T","i","m","e","s">>, "visualization", t) >>

(***************************************************************************)
(* Array helpers of the processing chain in loadFeeds.                     *)
(***************************************************************************)
\* a faulty variant: the arrays are joined from the last to the first
RECURSIVE FlattenLastFirst(_)
FlattenLastFirst(seqs) ==
    IF seqs = <<>> THEN <<>> ELSE FlattenLastFirst(Tail(seqs)) \o Head(seqs)

RECURSIVE Flatten(_)
Flatten(seqs) == IF seqs = <<>> THEN <<>> ELSE Head(seqs) \o Flatten(Tail(seqs))

\* Array.prototype.filter keeping the elements at the positions in keep
RECURSIVE KeepAt(_, _, _)
KeepAt(s, keep, i) ==
    IF i > Len(s) THEN <<>>
    ELSE (IF i \in keep THEN <<s[i]>> ELSE <<>>) \o KeepAt(s, keep, i + 1)

\* a faulty variant: findLastIndex instead of findIndex
findLastIndexByLink(self, link) ==
    CHOOSE i \in 1..Len(self) :
        self[i].link = link /\ \A j \in (i + 1)..Len(self) : self[j].link # link

\* self.findIndex(a => a.link === link), 1-based
findIndexByLink(self, link) ==
    CHOOSE i \in 1..Len(self) :
        self[i].link = link /\ \A j \in 1..(i - 1) : self[j].link # link

\* a faulty variant: no deduplication
dedupeNone(self) == self

\* .filter((article, index, self) => index === self.findIndex(a => a.link === article.link))
dedupeByLink(self) ==
    KeepAt(self, {i \in 1..Len(self) : i = findIndexByLink(self, self[i].link)}, 1)

\* (a, b) => new Date(b.pubDate) - new Date(a.pubDate), a NaN result read as +0
compareFn(a, b) ==
    LET x == DateValue(b.pubDate)
        y == DateValue(a.pubDate)
    IN  IF x.nan \/ y.nan THEN 0 ELSE x.v - y.v

\* ECMAScript's "consistent comparison function" for the elements of s
ConsistentComparator(s) ==
    \A i, j, k \in 1..Len(s) :
        /\ (compareFn(s[i], s[j]) = 0 /\ compareFn(s[j], s[k]) = 0)
              => compareFn(s[i], s[k]) = 0
        /\ (compareFn(s[i], s[j]) < 0 /\ compareFn(s[j], s[k]) < 0)
              => compareFn(s[i], s[k]) < 0
        /\ (compareFn(s[i], s[j]) > 0 /\ compareFn(s[j], s[k]) > 0)
              => compareFn(s[i], s[k]) > 0
        /\ (compareFn(s[i], s[j]) = 0)
              => /\ (compareFn(s[i], s[k]) < 0 <=> compareFn(s[j], s[k]) < 0)
                 /\ (compareFn(s[i], s[k]) > 0 <=> compareFn(s[j], s[k]) > 0)

\* the stable sort of s by compareFn
StableSort(s) ==
    LET before(j, i) == compareFn(s[j], s[i]) < 0 \/ (compareFn(s[j], s[i]) = 0 /\ j < i)
        rank(i) == 1 + Cardinality({j \in 1..Len(s) : j # i /\ before(j, i)})
    IN  [r \in 1..Len(s) |-> s[CHOOSE i \in 1..Len(s) : rank(i) = r]]

Orderings(s) ==
    {[r \in 1..Len(s) |-> s[p[r]]] :
        p \in {q \in [1..Len(s) -> 1..Len(s)] : \A a, b \in 1..Len(s) : q[a] = q[b] => a = b}}

\* Array.prototype.sort(compareFn): stable for a consistent comparison function,
\* an implementation-defined order of the same elements otherwise
sort(s) == IF ConsistentComparator(s) THEN {StableSort(s)} ELSE Orderings(s)

\* a raw item whose description is not a string: html.replace is not a function
NotAString == <<"[object Object]">>

normalizeThrows(rawArticle) == Or(rawArticle.description, rawArticle.content) = NotAString

\* articles.map(normalizeArticle).filter(dedupe).map(categorizeArticle).filter(non-null),
\* before the sort
Classified(articles, t) ==
    LET normalized == [i \in 1..Len(articles) |-> normalizeArticle(articles[i], t)]
        unique     == dedupeByLink(normalized)
        categorized == [i \in 1..Len(unique) |-> categorizeArticle(unique[i])]
    IN  KeepAt(categorized, {i \in 1..Len(categorized) : categorized[i] # Null}, 1)

\* the values processedArticles can take
processArticles(articles, t) == sort(Classified(articles, t))

(***************************************************************************)
(* Storage (storage.js).  A stored string is modelled by the JSON value it *)
(* holds, objects as tuples of their values in key order; <<>> is getItem's*)
(* null.                                                                   *)
(***************************************************************************)
CACHE_DURATION == 3600000

ArticleToJSON(a) ==
    <<a.id, a.title, a.description, a.link, a.pubDate, a.source, a.category, a.isFavorite>>

ArticleFromJSON(j) ==
    IF Len(j) = 0 THEN Null ELSE
    [ id |-> j[1], title |-> j[2], description |-> j[3], link |-> j[4],
      pubDate |-> j[5], source |-> j[6], category |-> j[7], isFavorite |-> j[8] ]

\* JSON.stringify(cacheData)
stringifyCache(cacheData) ==
    << cacheData.timestamp,
       [i \in 1..Len(cacheData.articles) |-> ArticleToJSON(cacheData.articles[i])],
       cacheData.expiresAt >>

\* JSON.parse(data) of a stored cache entry; a null in the list is Null
parseCache(data) ==
    [ timestamp |-> data[1],
      articles  |-> [i \in 1..Len(data[2]) |-> ArticleFromJSON(data[2][i])],
      expiresAt |-> data[3] ]

NoItem == <<>>

\* clearCache(): removeItem of the cache key
clearCache(storage) == [storage EXCEPT !.cache = NoItem]

\* the outcomes of localStorage.setItem
WriteOutcomes == {"ok", "QuotaExceededError", "SecurityError"}

\* a faulty variant: the entry expires after half the cache window
cacheArticlesHalfWindow(storage, articles, t1, t2, outcome) ==
    LET cacheData == [timestamp |-> t1, articles |-> articles,
                      expiresAt |-> t2 + (CACHE_DURATION \div 2)]
    IN  IF outcome = "ok"
        THEN [storage |-> [storage EXCEPT !.cache = stringifyCache(cacheData)],
              returns |-> TRUE]
        ELSE IF outcome = "QuotaExceededError"
        THEN [storage |-> clearCache(storage), returns |-> FALSE]
        ELSE [storage |-> storage, returns |-> FALSE]

\* a faulty variant: the key is left alone when the quota is exceeded
cacheArticlesKeepOnQuota(storage, articles, t1, t2, outcome) ==
    LET cacheData == [timestamp |-> t1, articles |-> articles,
                      expiresAt |-> t2 + CACHE_DURATION]
    IN  IF outcome = "ok"
        THEN [storage |-> [storage EXCEPT !.cache = stringifyCache(cacheData)],
              returns |-> TRUE]
        ELSE [storage |-> storage, returns |-> FALSE]

\* cacheArticles(articles): t1 and t2 are its two clock readings, outcome is what
\* setItem does; the result is the new storage and the returned boolean
cacheArticles(storage, articles, t1, t2, outcome) ==
    LET cacheData == [timestamp |-> t1, articles |-> articles,
                      expiresAt |-> t2 + CACHE_DURATION]
    IN  IF outcome = "ok"
        THEN [storage |-> [storage EXCEPT !.cache = stringifyCache(cacheData)],
              returns |-> TRUE]
        ELSE IF outcome = "QuotaExceededError"
        THEN [storage |-> clearCache(storage), returns |-> FALSE]
        ELSE [storage |-> storage, returns |-> FALSE]

\* a faulty variant: an entry is still served at the instant it expires
cacheValidInclusive(t, cacheData) == t <= cacheData.expiresAt

\* the expiry test of getCachedArticles
cacheValid(t, cacheData) == t < cacheData.expiresAt

\* getCachedArticles() at clock reading t: isNull for the null result
getCachedArticles(storage, t) ==
    LET data == storage.cache
    IN  IF data = NoItem
        THEN [isNull |-> TRUE, articles |-> <<>>, storage |-> storage]
        ELSE IF Len(data) = 2
        THEN \* a text that is no entry <<timestamp, articles, expiresAt>>: the
             \* empty text is falsy; JSON.parse throws on "text" and reading
             \* .expiresAt of null throws, both caught; on a number or an object
             \* without expiresAt the test now < undefined fails; an entry
             \* without articles gives undefined while it is valid
             IF data[1] \in {"empty", "text", "null"}
             THEN [isNull |-> TRUE, articles |-> <<>>, storage |-> storage]
             ELSE IF data[1] = "noarticles" /\ cacheValid(t, [expiresAt |-> data[2]])
             THEN [isNull |-> TRUE, articles |-> <<>>, storage |-> storage]
             ELSE [isNull |-> TRUE, articles |-> <<>>, storage |-> clearCache(storage)]
        ELSE IF cacheValid(t, parseCache(data))
        THEN [isNull |-> FALSE, articles |-> parseCache(data).articles, storage |-> storage]
        ELSE [isNull |-> TRUE, articles |-> <<>>, storage |-> clearCache(storage)]

(***************************************************************************)
(* Feed Fetcher (rss-proxy.js).                                            *)
(***************************************************************************)
RSS_FEEDS ==
    << <<"h","t","t","p","s",":","/","/","w","w","w",".","a","r","c","h","d","a","i","l","y",".","c","o","m","/","f","e","e","d">>,
       <<"h","t","t","p","s",":","/","/","w","w","w",".","d","e","z","e","e","n",".","c","o","m","/","f","e","e","d","/">>,
       <<"h","t","t","p","s",":","/","/","a","r","c","h","i","t","i","z","e","r",".","c","o","m","/","b","l","o","g","/","f","e","e","d","/">>,
       <<"h","t","t","p","s",":","/","/","b","l","o","g",".","t","e","s","t","f","i","t",".","i","o","/","f","e","e","d">> >>

Feeds == 1..Len(RSS_FEEDS)

RawItem(title, description, content, link, pubDate, guid) ==
    [ title |-> title, description |-> description, content |-> content,
      link |-> link, pubDate |-> pubDate, guid |-> guid ]

\* parseXMLFeed(xmlDoc) at clock reading t.  A document is its "item" elements and
\* its "entry" elements; a child element that is missing or empty is <<>> (NoDate
\* for a date).
parseXMLFeed(xmlDoc, t) ==
    IF Len(xmlDoc.item) > 0
    THEN [i \in 1..Len(xmlDoc.item) |->
            LET item == xmlDoc.item[i]
            IN  RawItem(Or(item.title, <<"U","n","t","i","t","l","e","d">>), item.description, <<>>, item.link,
                        IF item.pubDate.kind = "missing" THEN toISOString(t)
                        ELSE item.pubDate,
                        item.guid)]
    ELSE IF Len(xmlDoc.entry) > 0
    THEN [i \in 1..Len(xmlDoc.entry) |->
            LET entry == xmlDoc.entry[i]
            IN  RawItem(Or(entry.title, <<"U","n","t","i","t","l","e","d">>), Or(entry.summary, entry.content),
                        <<>>, entry.href,
                        IF entry.published.kind # "missing" THEN entry.published
                        ELSE IF entry.updated.kind # "missing" THEN entry.updated
                        ELSE toISOString(t),
                        entry.id)]
    ELSE <<>>

(***************************************************************************)
(* What the upstream services can answer in the model.                     *)
(***************************************************************************)
LinkA == <<"h","t","t","p","s",":","/","/","w","w","w",".","a","-","b",".","i","o","/","1">>
LinkB == <<"h","t","t","p","s",":","/","/","c",".","i","o","/","2">>
LinkC == <<"h","t","t","p",":","/","/","d",".","i","o">>
LinkD == <<"h","t","t","p","s",":","/","/","e",".","i","o","/","x">>

\* the "items" arrays the transform service can return for feed s
ItemPayloads(s) ==
    CASE s = 1 -> { << RawItem(<<"A","I"," ","t","o","o","l">>, <<"<","b",">","D","r","a","w","<","/","b",">">>, <<>>, LinkA, Instant(3000), <<"g","1">>),
                       RawItem(<<"H","o","u","s","e">>, <<"B","r","i","c","k">>, <<>>, LinkB, Instant(2000), <<>>) >> }
      [] s = 2 -> { << RawItem(<<"G","P","T"," ","b","i","m">>, <<"P","l","a","n">>, <<>>, LinkA, Instant(1000), <<>>) >> }
      [] s = 3 -> { << RawItem(<<"H","o","u","s","e">>, <<"B","r","i","c","k">>, <<>>, <<>>, Instant(2000), <<>>),
                       RawItem(<<"N","e","u","r","a","l">>, <<>>, <<"N","e","t"," ","&","a","m","p",";"," ","C","o">>, <<>>, Instant(3000), <<>>) >> }
      [] s = 4 -> { << RawItem(<<"M","L">>, <<"x">>, <<>>, LinkC, BadDate, <<>>),
                       RawItem(<<>>, <<>>, <<>>, <<>>, NoDate, <<"g","4">>) >>,
                    << RawItem(<<"A","I">>, NotAString, <<>>, LinkD, NoDate, <<>>) >> }

\* the bodies response.json() can yield from the transform service for feed s
PrimaryBodies(s) ==
    {[kind |-> "malformed", status |-> "", items |-> <<>>],
     [kind |-> "json", status |-> "error", items |-> <<>>],
     [kind |-> "json", status |-> "ok", items |-> <<>>]}
    \cup {[kind |-> "json", status |-> "ok", items |-> p] : p \in ItemPayloads(s)}

RssElement(title, description, link, pubDate, guid) ==
    [ title |-> title, description |-> description, link |-> link,
      pubDate |-> pubDate, guid |-> guid ]

AtomElement(title, summary, content, href, published, updated, id) ==
    [ title |-> title, summary |-> summary, content |-> content, href |-> href,
      published |-> published, updated |-> updated, id |-> id ]

\* the documents DOMParser can yield from the raw-content proxy for feed s
XmlDocs(s) ==
    CASE s = 1 -> { [item  |-> <<RssElement(<<>>, <<"D","a","l","l","e">>, LinkD, NoDate, <<"g","5">>)>>,
                     entry |-> <<>>] }
      [] s = 2 -> { [item  |-> <<>>,
                     entry |-> <<AtomElement(<<"L","L","M">>, <<>>, <<"D","e","c","o","r">>, LinkA, NoDate,
                                             Instant(2000), <<"i","d","2">>)>>] }
      [] OTHER -> { [item |-> <<>>, entry |-> <<>>] }

\* the bodies response.json() can yield from the raw-content proxy for feed s
SecondaryBodies(s) ==
    {[kind |-> "malformed", doc |-> [item |-> <<>>, entry |-> <<>>]]}
    \cup {[kind |-> "json", doc |-> d] : d \in XmlDocs(s)}

\* the outcomes of fetch(): a rejected promise, a response with ok false or true
FetchOutcomes == {"network_error", "http_error", "ok"}

\* what the fetchFeed call of source s can resolve to, null apart
Deliveries(s) ==
    {<<>>} \cup ItemPayloads(s)
           \cup {parseXMLFeed(d, t) : d \in XmlDocs(s), t \in Times}

\* the arrays loadFeeds can collect from the sources, in source order
Collections ==
    {Flatten(c) : c \in {f \in [Feeds -> UNION {Deliveries(s) : s \in Feeds}] :
                             \A s \in Feeds : f[s] \in Deliveries(s)}}

\* processArticles on those arrays at each clock reading, computed once
ProcessTable ==
    [articles \in {c \in Collections : \A i \in 1..Len(c) : ~normalizeThrows(c[i])} |->
        [t \in Times |-> processArticles(articles, t)]]

(***************************************************************************)
(* State.                                                                  *)
(***************************************************************************)
VARIABLES
    now,            \* the clock, Date.now() in ms
    localStorage,   \* the newsTracker_ keys of localStorage
    pc,             \* loadFeeds: "idle", "awaiting" (at Promise.allSettled), "done"
    feeds,          \* per source: the state of its fetchFeed call
    rawArticles,    \* loadFeeds' local array `articles`
    result,         \* how the last loadFeeds call ended
    written,        \* history: the last successful cacheArticles call, while its
                    \* entry has not been evicted
    app,            \* script.js: its globals and the visibility of the page sections
    probe           \* the last direct call of a library function: its name,
                    \* arguments and what it returned

vars == <<now, localStorage, pc, feeds, rawArticles, result, written, app, probe>>

\* the variables of the pipeline (rss-proxy.js and the cache)
pipelineVars == <<now, localStorage, pc, feeds, rawArticles, result, written>>

\* a fetchFeed call: where it is, how the primary attempt ended, the state of its
\* promise and its value (isNull for null), and the requests it has issued
FeedIdle ==
    [ pc |-> "idle", primary |-> "pending", status |-> "pending",
      isNull |-> FALSE, items |-> <<>>, primaryCalls |-> 0, secondaryCalls |-> 0 ]

\* how a call of loadFeeds ended: write is what setItem did in its call of
\* cacheArticles, prior whether the cache key held an entry before that call
NoResult == [status |-> "none", via |-> "none", articles |-> <<>>, cached |-> "none",
             write |-> "none", prior |-> FALSE]

NotWritten == [present |-> FALSE, at |-> 0, articles |-> <<>>]

\* the page before DOMContentLoaded: script.js lines 4-6, sections as initApp's
\* first statements find them
AppUnloaded ==
    [ pc |-> "unloaded", allArticles |-> <<>>, displayedArticles |-> <<>>,
      currentFilter |-> "all", loadingHidden |-> FALSE, errorHidden |-> TRUE,
      emptyHidden |-> TRUE, gridDisplay |-> "block", emptyMessageText |-> "",
      cards |-> <<>>, filtersInitialized |-> FALSE ]

NoProbe == [op |-> "none"]

Init ==
    /\ now = 0
    /\ localStorage = [cache |-> NoItem, favorites |-> NoItem]
    /\ pc = "idle"
    /\ feeds = [s \in Feeds |-> FeedIdle]
    /\ rawArticles = <<>>
    /\ result = NoResult
    /\ written = NotWritten
    /\ app = AppUnloaded
    /\ probe = NoProbe

(***************************************************************************)
(* fetchFeed, one step per await.                                          *)
(***************************************************************************)
\* fetchFeed(rssUrl) up to its first await: the primary request is issued
fetchFeedStart(f) == [f EXCEPT !.pc = "primary_fetch", !.primaryCalls = @ + 1]

\* the outer catch: the secondary request is issued
fetchFeedFallback(f) ==
    [f EXCEPT !.pc = "secondary_fetch", !.secondaryCalls = @ + 1]

\* response.ok
responseOk(r) == r = "ok"

\* a faulty variant: an "ok" answer without items is treated as a failure
statusOkWithItems(data) == data.kind = "json" /\ data.status = "ok" /\ data.items # <<>>

\* the primary body passes: response.json() resolved and data.status === 'ok'
statusOk(data) == data.kind = "json" /\ data.status = "ok"

\* fetchFeed returns v
fetchFeedReturn(f, isNull, items) ==
    [f EXCEPT !.pc = "settled", !.status = "fulfilled", !.isNull = isNull, !.items = items]

\* a faulty variant: no inner catch: the secondary failure rejects the promise
fetchFeedRejects(f) == [f EXCEPT !.pc = "failed", !.status = "rejected"]

\* the inner catch: return null
fetchFeedBothFailed(f) == fetchFeedReturn(f, TRUE, <<>>)

\* await fetch(proxyUrl) completes
PrimaryResponse(s) ==
    /\ pc = "awaiting"
    /\ feeds[s].pc = "primary_fetch"
    /\ \E r \in FetchOutcomes :
          LET answered == IF r = "ok" THEN "pending" ELSE "failed"
          IN  feeds' = [feeds EXCEPT ![s] =
                           IF responseOk(r)
                           THEN [@ EXCEPT !.pc = "primary_json", !.primary = answered]
                           ELSE fetchFeedFallback([@ EXCEPT !.primary = answered])]
    /\ UNCHANGED <<now, localStorage, pc, rawArticles, result, written>>

\* await response.json() completes, then the status test and the return
PrimaryJson(s) ==
    /\ pc = "awaiting"
    /\ feeds[s].pc = "primary_json"
    /\ \E data \in PrimaryBodies(s) :
          LET answered == IF data.kind = "json" /\ data.status = "ok" THEN "ok" ELSE "failed"
          IN  feeds' = [feeds EXCEPT ![s] =
                           IF statusOk(data)
                           THEN fetchFeedReturn([@ EXCEPT !.primary = answered], FALSE, data.items)
                           ELSE fetchFeedFallback([@ EXCEPT !.primary = answered])]
    /\ UNCHANGED <<now, localStorage, pc, rawArticles, result, written>>

\* await fetch(allOriginsUrl) completes
SecondaryResponse(s) ==
    /\ pc = "awaiting"
    /\ feeds[s].pc = "secondary_fetch"
    /\ \E r \in FetchOutcomes :
          feeds' = [feeds EXCEPT ![s] =
                       IF responseOk(r) THEN [@ EXCEPT !.pc = "secondary_json"]
                       ELSE fetchFeedBothFailed(@)]
    /\ UNCHANGED <<now, localStorage, pc, rawArticles, result, written>>

\* await response.json() completes, then DOMParser and parseXMLFeed
SecondaryJson(s) ==
    /\ pc = "awaiting"
    /\ feeds[s].pc = "secondary_json"
    /\ \E data \in SecondaryBodies(s) :
          feeds' = [feeds EXCEPT ![s] =
                       IF data.kind = "json"
                       THEN fetchFeedReturn(@, FALSE, parseXMLFeed(data.doc, now))
                       ELSE fetchFeedBothFailed(@)]
    /\ UNCHANGED <<now, localStorage, pc, rawArticles, result, written>>

(***************************************************************************)
(* loadFeeds.                                                              *)
(***************************************************************************)
\* a faulty variant: the length test off by one
cacheHitMoreThanOne(cached) == ~cached.isNull /\ Len(cached.articles) > 1

\* cachedArticles && cachedArticles.length > 0
cacheHit(cached) == ~cached.isNull /\ Len(cached.articles) > 0

\* a faulty variant: the join resolves only when every source has delivered
allDelivered(fs) == \A s \in Feeds : fs[s].status = "fulfilled" /\ ~fs[s].isNull

\* a faulty variant: the join resolves with the first settled source
anySettled(fs) == \E s \in Feeds : fs[s].status # "pending"

\* Promise.allSettled(feedPromises) has resolved
allSettled(fs) == \A s \in Feeds : fs[s].status # "pending"

\* results.forEach: the values of the fulfilled, non-null results, in source order
collect(fs) ==
    Flatten([s \in Feeds |->
                IF fs[s].status = "fulfilled" /\ ~fs[s].isNull THEN fs[s].items ELSE <<>>])

\* loadFeeds() is called and the cache holds a valid non-empty entry
LoadFeedsCacheHit ==
    /\ pc # "awaiting"
    /\ LET cached == getCachedArticles(localStorage, now)
       IN  /\ cacheHit(cached)
           /\ localStorage' = cached.storage
           /\ result' = [status |-> "returned", via |-> "cache",
                         articles |-> cached.articles, cached |-> "none",
                         write |-> "none", prior |-> FALSE]
    /\ pc' = "done"
    /\ feeds' = [s \in Feeds |-> FeedIdle]
    /\ rawArticles' = <<>>
    /\ UNCHANGED <<now, written>>

\* loadFeeds() is called and there is no usable cache: every fetchFeed is started
LoadFeedsStart ==
    /\ pc # "awaiting"
    /\ LET cached == getCachedArticles(localStorage, now)
       IN  /\ ~cacheHit(cached)
           /\ localStorage' = cached.storage
           /\ written' = IF cached.storage.cache = NoItem THEN NotWritten ELSE written
    /\ pc' = "awaiting"
    /\ feeds' = [s \in Feeds |-> fetchFeedStart(FeedIdle)]
    /\ rawArticles' = <<>>
    /\ result' = NoResult
    /\ UNCHANGED now

\* a faulty variant: no fallback: the empty collection is returned
LoadFeedsFallbackEmpty ==
    /\ pc = "awaiting"
    /\ allSettled(feeds)
    /\ collect(feeds) = <<>>
    /\ rawArticles' = collect(feeds)
    /\ result' = [status |-> "returned", via |-> "mock", articles |-> <<>>, cached |-> "none",
                  write |-> "none", prior |-> FALSE]
    /\ pc' = "done"
    /\ UNCHANGED <<now, localStorage, feeds, written>>

\* a faulty variant: the sample set is cached before it is returned
LoadFeedsFallbackCaching ==
    /\ pc = "awaiting"
    /\ allSettled(feeds)
    /\ collect(feeds) = <<>>
    /\ rawArticles' = collect(feeds)
    /\ result' = [status |-> "returned", via |-> "mock",
                  articles |-> getMockArticles(now), cached |-> "none",
                  write |-> "none", prior |-> FALSE]
    /\ pc' = "done"
    /\ localStorage' = cacheArticles(localStorage, getMockArticles(now), now, now, "ok").storage
    /\ UNCHANGED <<now, feeds, written>>

\* after the join: no raw items, the sample set is returned
LoadFeedsFallback ==
    /\ pc = "awaiting"
    /\ allSettled(feeds)
    /\ collect(feeds) = <<>>
    /\ rawArticles' = collect(feeds)
    /\ result' = [status |-> "returned", via |-> "mock",
                  articles |-> getMockArticles(now), cached |-> "none",
                  write |-> "none", prior |-> FALSE]
    /\ pc' = "done"
    /\ UNCHANGED <<now, localStorage, feeds, written>>

\* after the join: normalizeArticle throws, loadFeeds rethrows
LoadFeedsThrow ==
    /\ pc = "awaiting"
    /\ allSettled(feeds)
    /\ \E i \in 1..Len(collect(feeds)) : normalizeThrows(collect(feeds)[i])
    /\ rawArticles' = collect(feeds)
    /\ result' = [status |-> "thrown", via |-> "none", articles |-> <<>>, cached |-> "none",
                  write |-> "none", prior |-> FALSE]
    /\ pc' = "done"
    /\ UNCHANGED <<now, localStorage, feeds, written>>

\* after the join: the raw items are processed, cached and returned; the clock may
\* advance between the two readings of cacheArticles
LoadFeedsProcess ==
    /\ pc = "awaiting"
    /\ allSettled(feeds)
    /\ collect(feeds) # <<>>
    /\ \A i \in 1..Len(collect(feeds)) : ~normalizeThrows(collect(feeds)[i])
    /\ \E processedArticles \in ProcessTable[collect(feeds)][now],
          outcome \in WriteOutcomes,
          t2 \in {t \in {now, now + TickMs} : t <= MaxTicks * TickMs} :
          LET stored == cacheArticles(localStorage, processedArticles, now, t2, outcome)
          IN  /\ localStorage' = stored.storage
              /\ now' = t2
              /\ result' = [status |-> "returned", via |-> "feeds",
                            articles |-> processedArticles,
                            cached |-> IF stored.returns THEN "ok" ELSE "failed",
                            write |-> outcome,
                            prior |-> localStorage.cache # NoItem]
              /\ written' = IF stored.returns
                            THEN [present |-> TRUE, at |-> t2, articles |-> processedArticles]
                            ELSE IF stored.storage.cache = NoItem THEN NotWritten
                            ELSE written
    /\ rawArticles' = collect(feeds)
    /\ pc' = "done"
    /\ UNCHANGED feeds

\* time passes
Tick ==
    /\ now + TickMs <= MaxTicks * TickMs
    /\ now' = now + TickMs
    /\ UNCHANGED <<localStorage, pc, feeds, rawArticles, result, written>>

\* the pipeline on its own: loadFeeds is called at any time it is not running
Next ==
    \/ LoadFeedsCacheHit /\ UNCHANGED <<app, probe>>
    \/ LoadFeedsStart /\ UNCHANGED <<app, probe>>
    \/ \E s \in Feeds : PrimaryResponse(s) /\ UNCHANGED <<app, probe>>
    \/ \E s \in Feeds : PrimaryJson(s) /\ UNCHANGED <<app, probe>>
    \/ \E s \in Feeds : SecondaryResponse(s) /\ UNCHANGED <<app, probe>>
    \/ \E s \in Feeds : SecondaryJson(s) /\ UNCHANGED <<app, probe>>
    \/ LoadFeedsFallback /\ UNCHANGED <<app, probe>>
    \/ LoadFeedsThrow /\ UNCHANGED <<app, probe>>
    \/ LoadFeedsProcess /\ UNCHANGED <<app, probe>>
    \/ Tick /\ UNCHANGED <<app, probe>>

Spec == Init /\ [][Next]_vars

\* one step of the fetchFeed call of source s
FeedStep(s) ==
    /\ PrimaryResponse(s) \/ PrimaryJson(s) \/ SecondaryResponse(s) \/ SecondaryJson(s)
    /\ UNCHANGED <<app, probe>>

\* the continuation of loadFeeds after the join
Join ==
    /\ LoadFeedsFallback \/ LoadFeedsThrow \/ LoadFeedsProcess
    /\ UNCHANGED <<app, probe>>

\* the source whose upstream call may never complete
HungFeed == Len(RSS_FEEDS)

\* Scheduling: the event loop runs every enabled continuation, and the upstream
\* calls of every source but HungFeed complete.
FairSpec ==
    /\ Spec
    /\ \A s \in Feeds \ {HungFeed} : WF_vars(FeedStep(s))
    /\ WF_vars(Join)

(***************************************************************************)
(* Properties.                                                             *)
(***************************************************************************)
\* no request has been issued for any source
NoRequests(fs) == \A s \in Feeds : fs[s].primaryCalls = 0 /\ fs[s].secondaryCalls = 0

\* a step in which loadFeeds is called
CallStep == pc # "awaiting" /\ now' = now

\* C1 (cache round-trip and expiry): after cacheArticles(A) succeeded at time t, a
\* read at any time before t + 3,600,000 ms returns a collection equal to A; a read
\* at or after the expiry returns null and removes the key, so that every later
\* read finds no entry.
C1_CacheRoundTripAndExpiry ==
    written.present =>
        LET got == getCachedArticles(localStorage, now)
        IN  /\ now < written.at + 3600000
                => ~got.isNull /\ got.articles = written.articles
            /\ now >= written.at + 3600000
                => /\ got.isNull
                   /\ got.storage.cache = NoItem
                   /\ \A t \in Times : t >= now => getCachedArticles(got.storage, t).isNull

\* an entry written one or more hours ago is still stored, not yet read
C1_Witness ==
    /\ written.present
    /\ Len(written.articles) > 0
    /\ localStorage.cache # NoItem
    /\ now >= written.at + 3600000

\* the cache key holds an unexpired entry with at least one article
ValidNonEmptyEntry ==
    /\ localStorage.cache # NoItem
    /\ now < localStorage.cache[3]
    /\ Len(localStorage.cache[2]) > 0

\* C2 (cache hit short-circuits): a loadFeeds call made while the cache holds an
\* unexpired entry with at least one article returns exactly the stored collection,
\* issues no request for any source and leaves the cache entry unchanged.
C2_CacheHitShortCircuits ==
    [][ (CallStep /\ ValidNonEmptyEntry)
          => /\ pc' = "done"
             /\ result'.status = "returned"
             /\ result'.articles = written.articles
             /\ [i \in 1..Len(result'.articles) |-> ArticleToJSON(result'.articles[i])]
                   = localStorage.cache[2]
             /\ NoRequests(feeds')
             /\ localStorage' = localStorage ]_vars

\* a call has just been answered from the cache
C2_Witness == pc = "done" /\ result.via = "cache" /\ Len(result.articles) > 0

\* C3 as stated (one-hour window): after a call that wrote its result to the cache
\* at time t, every call before t + 1 hour returns that collection from the cache
\* and issues no request.
C3_Original ==
    [][ (CallStep /\ written.present /\ now < written.at + 3600000)
          => /\ pc' = "done"
             /\ result'.articles = written.articles
             /\ NoRequests(feeds') ]_vars

\* C3 amended: the same, for a call that wrote a non-empty result.
C3_CacheWindowNonEmpty ==
    [][ (CallStep /\ written.present /\ Len(written.articles) > 0
            /\ now < written.at + 3600000)
          => /\ pc' = "done"
             /\ result'.articles = written.articles
             /\ NoRequests(feeds') ]_vars

\* a call answered from the cache some time after the write, inside the window
C3_Witness ==
    /\ pc = "done" /\ result.via = "cache"
    /\ written.present /\ written.at < now /\ now < written.at + 3600000
    /\ result.articles = written.articles

\* source s failed in both tiers
FailedBothTiers(s) == feeds[s].pc = "settled" /\ feeds[s].isNull

\* source s delivered at least one raw item
Delivering(s) ==
    feeds[s].pc = "settled" /\ feeds[s].status = "fulfilled"
        /\ ~feeds[s].isNull /\ feeds[s].items # <<>>

\* every source has settled and contributed no raw item
NothingDelivered ==
    \A s \in Feeds :
        feeds[s].status # "pending" /\ (feeds[s].isNull \/ feeds[s].items = <<>>)

\* C4 (total-failure fallback): when every source contributes zero raw items,
\* loadFeeds neither throws nor returns an empty collection: it returns the built-in
\* sample set.
C4_TotalFailureFallback ==
    (pc = "done" /\ NothingDelivered)
        => /\ result.status = "returned"
           /\ result.articles # <<>>
           /\ \E t \in Times : t <= now /\ result.articles = getMockArticles(t)

\* every source failed in both tiers and the call has returned
C4_Witness ==
    pc = "done" /\ result.via = "mock" /\ \A s \in Feeds : FailedBothTiers(s)

\* the raw items of the delivering sources
DeliveredItems ==
    UNION {{feeds[s].items[i] : i \in 1..Len(feeds[s].items)} : s \in {x \in Feeds : Delivering(x)}}

\* the link normalizeArticle gives a raw item
LinkOf(raw) == Or(raw.link, Or(raw.guid, <<"#">>))

\* the raw items the two services can deliver
KnownRawItems ==
    UNION {{p[i] : i \in 1..Len(p)} : p \in UNION {ItemPayloads(s) : s \in Feeds}}
    \cup UNION {{parseXMLFeed(d, t)[i] : i \in 1..Len(parseXMLFeed(d, t))} :
                  d \in UNION {XmlDocs(s) : s \in Feeds}, t \in Times}

\* categorizeArticle(normalizeArticle(raw)) at each clock reading, tabulated
ProcessedTable ==
    [raw \in {r \in KnownRawItems : ~normalizeThrows(r)} |->
        [t \in Times |-> categorizeArticle(normalizeArticle(raw, t))]]

\* a raw item that passes the relevance gate once normalized
RelevantRaw(raw) == ~normalizeThrows(raw) /\ ProcessedTable[raw][0] # Null

\* article a is the processed form of raw item raw
ProcessedFrom(a, raw) ==
    ~normalizeThrows(raw) /\ \E t \in Times : t <= now /\ a = ProcessedTable[raw][t]

BuiltFromDelivered(articles) ==
    \A k \in 1..Len(articles) : \E raw \in DeliveredItems : ProcessedFrom(articles[k], raw)

\* every two articles with parseable dates stand newest first
NewestFirst(articles) ==
    \A i, j \in 1..Len(articles) :
        (i < j /\ ~DateValue(articles[i].pubDate).nan /\ ~DateValue(articles[j].pubDate).nan)
            => DateValue(articles[i].pubDate).v >= DateValue(articles[j].pubDate).v

NoSharedLink(articles) ==
    \A i, j \in 1..Len(articles) : i # j => articles[i].link # articles[j].link

\* the cache entry holds exactly this collection
CacheHolds(articles) ==
    /\ localStorage.cache # NoItem
    /\ localStorage.cache[2] = [i \in 1..Len(articles) |-> ArticleToJSON(articles[i])]

\* the positions in raw of the first item of each link
FirstOfLink(raw) ==
    {i \in 1..Len(raw) : \A j \in 1..(i - 1) : LinkOf(raw[j]) # LinkOf(raw[i])}

\* C5 (partial-failure tolerance): some sources failed in both tiers and the others
\* delivered AI-relevant raw items (storage working, every item normalizable); then
\* loadFeeds does not throw and does not return the sample set, it returns a
\* non-empty collection built only from the delivering sources' items, newest first,
\* no two entries sharing a link, and that collection is what the cache stores.
C5_PartialFailureTolerance ==
    (/\ pc = "done"
     /\ \A s \in Feeds : feeds[s].pc = "settled"
     /\ \E s \in Feeds : FailedBothTiers(s)
     /\ \E s \in Feeds : Delivering(s)
     /\ \A raw \in DeliveredItems : RelevantRaw(raw)
     /\ result.cached # "failed")
        => /\ result.status = "returned"
           /\ result.via = "feeds"
           /\ result.articles # <<>>
           /\ BuiltFromDelivered(result.articles)
           /\ NewestFirst(result.articles)
           /\ NoSharedLink(result.articles)
           /\ CacheHolds(result.articles)

\* C6 (fetchFeed never throws past its boundary): whatever the primary and the
\* secondary call do, the promise of fetchFeed is never rejected; it is fulfilled,
\* with raw items or with null, exactly when the call has ended.
C6_FetchFeedNeverRejects ==
    \A s \in Feeds :
        /\ feeds[s].status # "rejected"
        /\ feeds[s].pc \in {"idle", "primary_fetch", "primary_json",
                            "secondary_fetch", "secondary_json", "settled"}
        /\ (feeds[s].pc = "settled" <=> feeds[s].status = "fulfilled")

\* a source whose two tiers both failed has resolved to null
C6_Witness ==
    \E s \in Feeds :
        /\ feeds[s].pc = "settled" /\ feeds[s].isNull
        /\ feeds[s].primary = "failed" /\ feeds[s].secondaryCalls = 1

\* C7 (two-tier ordering without retry): per source and cycle, the secondary request
\* has been issued exactly when the primary attempt has failed; a primary answer with
\* status "ok" is final, with or without items; each tier is called at most once.
C7_TwoTierOrdering ==
    \A s \in Feeds :
        /\ feeds[s].primaryCalls <= 1
        /\ feeds[s].secondaryCalls <= 1
        /\ (feeds[s].secondaryCalls = 1 <=> feeds[s].primary = "failed")
        /\ (feeds[s].secondaryCalls = 1 => feeds[s].primaryCalls = 1)
        /\ (feeds[s].primary = "ok"
               => /\ feeds[s].pc = "settled" /\ feeds[s].status = "fulfilled"
                  /\ ~feeds[s].isNull /\ feeds[s].secondaryCalls = 0)

\* a primary answer "ok" without items has settled the source
C7_Witness ==
    \E s \in Feeds :
        feeds[s].primary = "ok" /\ feeds[s].items = <<>> /\ feeds[s].pc = "settled"

\* the raw items of every settled source, in source order
AllDelivered(fs) ==
    Flatten([s \in Feeds |-> IF fs[s].isNull THEN <<>> ELSE fs[s].items])

\* C8 (all-settled join): every fetch is started before any is awaited; while some
\* source is pending loadFeeds does nothing (no result, no cache write, no fallback);
\* a source's settled result is never changed by what happens to another source, and
\* the join collects the items of every source that delivered.
C8_AllSettledJoin ==
    /\ [](pc = "awaiting" => \A s \in Feeds : feeds[s].primaryCalls = 1)
    /\ [][ /\ (pc = "awaiting" /\ \E s \in Feeds : feeds[s].status = "pending")
               => (pc' = "awaiting" /\ UNCHANGED <<localStorage, result, rawArticles, written>>)
           /\ (pc = "awaiting" /\ pc' = "awaiting")
               => \A s \in Feeds : feeds[s].pc = "settled" => feeds'[s] = feeds[s]
           /\ (pc = "awaiting" /\ pc' = "done")
               => (feeds' = feeds /\ rawArticles' = AllDelivered(feeds)) ]_vars

\* the join has run after one source failed and another delivered
C8_Witness ==
    /\ pc = "done" /\ result.via = "feeds"
    /\ \E s \in Feeds : FailedBothTiers(s)
    /\ \E s \in Feeds : Delivering(s)

\* C10 as stated (deduplication): of N raw items with M distinct links, the processed
\* output holds exactly M entries, each the first-encountered item of its link.
C10_Original ==
    (pc = "done" /\ result.via = "feeds")
        => /\ Len(result.articles)
                 = Cardinality({LinkOf(rawArticles[i]) : i \in 1..Len(rawArticles)})
           /\ \A k \in 1..Len(result.articles) :
                 \E i \in FirstOfLink(rawArticles) :
                     ProcessedFrom(result.articles[k], rawArticles[i])

\* C10 amended: the processed output holds exactly one entry for each distinct link
\* whose first-encountered item is AI-relevant, that entry being the processed form
\* of the first-encountered item.
C10_DedupFirstRelevant ==
    (pc = "done" /\ result.via = "feeds")
        => LET kept == {i \in FirstOfLink(rawArticles) : RelevantRaw(rawArticles[i])}
           IN  /\ Len(result.articles) = Cardinality(kept)
               /\ NoSharedLink(result.articles)
               /\ \A i \in kept :
                     \E k \in 1..Len(result.articles) :
                         ProcessedFrom(result.articles[k], rawArticles[i])

\* two raw items shared a link and the first of them is in the output
C10_Witness ==
    /\ pc = "done" /\ result.via = "feeds"
    /\ \E i, j \in 1..Len(rawArticles) :
          /\ i < j /\ LinkOf(rawArticles[i]) = LinkOf(rawArticles[j])
          /\ i \in FirstOfLink(rawArticles)
          /\ \E k \in 1..Len(result.articles) :
                ProcessedFrom(result.articles[k], rawArticles[i])

ProbeTitles ==
    { <<"M","i","d","j","o","u","r","n","e","y"," ","7"," ","R","e","l","e","a","s","e","d">>, <<"M","I","D","J","O","U","R","N","E","Y"," ","t","i","p","s">>, <<"P","r","o","m","p","t","s"," ","f","o","r"," ","m","i","d","J","o","u","r","n","e","y">>,
      <<"N","e","w"," ","c","h","a","i","r">>, <<"G","a","r","d","e","n">>, <<"W","o","o","d","e","n"," ","h","o","u","s","e">>, <<"G","e","n","e","r","a","t","i","v","e">>, <<"D","a","l","l">>,
      <<"A","I"," ","i","n"," ","C","o","n","s","t","r","u","c","t","i","o","n">>, <<"L","e","a","r","n","i","n","g"," ","h","t","m","l">>, <<"B","u","i","l","d","i","n","g"," ","a"," ","b","r","i","d","g","e">>,
      <<"C","h","a","t","G","P","T"," ","f","o","r"," ","p","l","a","n","n","e","r","s">> }

ProbeDescriptions ==
    { <<>>, <<"f","o","r"," ","a","r","c","h","i","t","e","c","t","s">>, <<"R","e","n","d","e","r","i","n","g"," ","w","i","t","h"," ","L","u","m","i","o","n">>,
      <<"a"," ","n","e","w"," ","f","u","r","n","i","t","u","r","e"," ","m","a","r","k","e","t">>, <<"I","n","t","e","r","i","o","r"," ","d","e","c","o","r">>, <<"A","I"," ","a","r","t"," ","a","n","d"," ","w","o","r","k","f","l","o","w">>,
      <<"E"," ","i","s"," ","h","e","r","e">>, <<"D","A","L","L","-","E"," ","a","n","d"," ","a","r","c","h","i","t","e","c","t","u","r","e">>, <<"t","h","e"," ","M","i","d","J","o","u","r","n","e","y"," ","p","r","o","m","p","t">>,
      <<"S","t","a","b","l","e"," ","D","i","f","f","u","s","i","o","n"," ","g","u","i","d","e">> }

\* an article as normalizeArticle leaves it, with the given title and description
ProbeArticle(title, description) ==
    [ id          |-> <<"p">>,
      title       |-> title,
      description |-> description,
      link        |-> <<"#">>,
      pubDate     |-> toISOString(0),
      source      |-> <<"U","n","k","n","o","w","n">>,
      category    |-> "industry-news",
      isFavorite  |-> FALSE ]

ProbeArticles ==
    {ProbeArticle(title, description) :
        title \in ProbeTitles, description \in ProbeDescriptions}

ClassifierInit ==
    /\ now = 0
    /\ localStorage = [cache |-> NoItem, favorites |-> NoItem]
    /\ pc = "idle"
    /\ feeds = [s \in Feeds |-> FeedIdle]
    /\ rawArticles = <<>>
    /\ result = NoResult
    /\ written = NotWritten
    /\ app = AppUnloaded
    /\ probe \in {[op |-> "input", article |-> a] : a \in ProbeArticles}

\* categorizeArticle(article) is called on the drawn article
Categorize ==
    /\ probe.op = "input"
    /\ probe' = [op |-> "categorizeArticle", article |-> probe.article,
                 out |-> categorizeArticle(probe.article)]
    /\ UNCHANGED <<pipelineVars, app>>

ClassifierNext == Categorize

ClassifierSpec == ClassifierInit /\ [][ClassifierNext]_vars

(***************************************************************************)
(* Claims about the classifier.                                            *)
(***************************************************************************)
\* word occurs in text at some position, letter case of text ignored
Occurs(word, text) ==
    \E i \in 1..(Len(text) - Len(word) + 1) :
        \A j \in 1..Len(word) : LowerTable[text[i + j - 1]] = word[j]

\* the lowercased title + description of the claim
TitleAndDescription(article) == article.title \o <<" ">> \o article.description

Categorized == probe.op = "categorizeArticle"

\* C11: categorizeArticle returns null exactly when the title + " " +
\* description, letter case ignored, contains none of the AI-relevance
\* keywords as a substring; an article with "midjourney" in any letter case
\* in its title or its description is not dropped and gets ai-design-tools.
C11_RelevanceGate ==
    Categorized =>
        /\ probe.out = Null <=>
              \A k \in 1..Len(AI_KEYWORDS) :
                  ~Occurs(AI_KEYWORDS[k], TitleAndDescription(probe.article))
        /\ \/ Occurs(<<"m","i","d","j","o","u","r","n","e","y">>, probe.article.title)
           \/ Occurs(<<"m","i","d","j","o","u","r","n","e","y">>, probe.article.description)
           => /\ probe.out # Null
              /\ probe.out.category = "ai-design-tools"

\* an article whose only AI keyword, in capitals, is in the description was kept
C11_Witness ==
    /\ Categorized
    /\ probe.article.title = <<"G","a","r","d","e","n">>
    /\ probe.article.description = <<"t","h","e"," ","M","i","d","J","o","u","r","n","e","y"," ","p","r","o","m","p","t">>
    /\ probe.out # Null
    /\ probe.out.category = "ai-design-tools"

\* an article without any AI keyword was dropped
C11_WitnessDropped ==
    /\ Categorized
    /\ probe.article.title = <<"W","o","o","d","e","n"," ","h","o","u","s","e">>
    /\ probe.out = Null

\* the table order of the claim
CategoryOrder ==
    << "ai-design-tools", "visualization", "automation", "architecture-ai",
       "interior-design-ai", "industry-news" >>

KeywordsOf(id) ==
    LET c == CHOOSE c \in 1..Len(CATEGORIES) : CATEGORIES[c].id = id
    IN  CATEGORIES[c].keywords

Matches(id, article) ==
    \E k \in 1..Len(KeywordsOf(id)) :
        Occurs(KeywordsOf(id)[k], TitleAndDescription(article))

\* C12: a kept article gets exactly one category: the first of
\* ai-design-tools, visualization, automation, architecture-ai,
\* interior-design-ai, industry-news with a keyword occurring in the text,
\* industry-news when none occurs, never all or favorites; nothing else of the
\* article changes.
C12_FirstCategoryInOrder ==
    Categorized /\ probe.out # Null =>
        LET matching == {n \in 1..Len(CategoryOrder) :
                            Matches(CategoryOrder[n], probe.article)}
            first == CHOOSE n \in matching : \A m \in matching : n <= m
        IN  /\ probe.out.category =
                  IF matching = {} THEN "industry-news" ELSE CategoryOrder[first]
            /\ probe.out.category \notin {"all", "favorites"}
            /\ probe.out = [probe.article EXCEPT !.category = probe.out.category]

\* a text with an ai-design-tools keyword and an architecture-ai keyword
C12_Witness ==
    /\ Categorized
    /\ probe.article.description = <<"D","A","L","L","-","E"," ","a","n","d"," ","a","r","c","h","i","t","e","c","t","u","r","e">>
    /\ Matches("ai-design-tools", probe.article)
    /\ Matches("architecture-ai", probe.article)
    /\ probe.out # Null
    /\ probe.out.category = "ai-design-tools"

(***************************************************************************)
(* Claims about the order of the processed collection and the cache write. *)
(***************************************************************************)
\* the collection before the sort, for each raw collection and clock reading
ClassifiedTable ==
    [c \in Collections |-> [t \in Times |-> Classified(c, t)]]

\* pubDate p is lower than pubDate q: an unparseable date is the lowest
DateBelow(p, q) ==
    \/ DateValue(p).nan /\ ~DateValue(q).nan
    \/ ~DateValue(p).nan /\ ~DateValue(q).nan /\ DateValue(p).v < DateValue(q).v

\* s ordered newest first, unparseable dates last, ties in the order of s
NewestFirstStable(s) ==
    LET before(j, i) == \/ DateBelow(s[i].pubDate, s[j].pubDate)
                        \/ (~DateBelow(s[j].pubDate, s[i].pubDate) /\ j < i)
        rank(i) == 1 + Cardinality({j \in 1..Len(s) : j # i /\ before(j, i)})
    IN  [r \in 1..Len(s) |-> s[CHOOSE i \in 1..Len(s) : rank(i) = r]]

ProcessedByFeeds == pc = "done" /\ result.status = "returned" /\ result.via = "feeds"

\* C13: the processed collection of loadFeeds is its pre-sort collection
\* ordered by pubDate descending, articles with an unparseable pubDate after
\* every article with a valid one, equal dates in their pre-sort order.
C13_SortOrder ==
    ProcessedByFeeds /\ rawArticles \in Collections =>
        \E t \in Times :
            /\ t <= now
            /\ result.articles = NewestFirstStable(ClassifiedTable[rawArticles][t])

C19_ExpiresAtExact ==
    localStorage.cache # NoItem =>
        parseCache(localStorage.cache).expiresAt
            = parseCache(localStorage.cache).timestamp + 3600000

(***************************************************************************)
(* Favorites Store (storage.js).  The text under the favorites key is a    *)
(* pair <<kind, payload>>: kind "array" for the JSON text of a list, its   *)
(* payload the list of the elements, a record {id, savedAt} as the pair    *)
(* <<id, savedAt>> and null as <<>>; the other kinds are texts that JSON   *)
(* parses to something else, or does not parse.  access is what the        *)
(* storage does during one call: "ok", "QuotaExceededError" (setItem       *)
(* throws) or "SecurityError" (getItem, setItem and removeItem throw).      *)
(***************************************************************************)
\* JSON.stringify(favorites) for a list of {id, savedAt} records
stringifyFavorites(favorites) ==
    <<"array", [i \in 1..Len(favorites) |-> <<favorites[i].id, favorites[i].savedAt>>]>>

\* the kinds of text JSON.parse accepts
JsonKinds == {"array", "null", "object", "number"}

\* JSON.parse(data) for a text it accepts; a null element is Null
parseFavorites(data) ==
    IF data[1] = "array"
    THEN [kind |-> "array",
          items |-> [i \in 1..Len(data[2]) |->
                        IF Len(data[2][i]) = 2
                        THEN [id |-> data[2][i][1], savedAt |-> data[2][i][2]]
                        ELSE Null]]
    ELSE [kind |-> data[1], items |-> <<>>]

EmptyList == [kind |-> "array", items |-> <<>>]

\* getFavorites(): the parsed value, [] when the key is absent or empty or when
\* getItem or JSON.parse throws
getFavorites(storage, access) ==
    LET data == storage.favorites
    IN  IF access = "SecurityError" THEN EmptyList
        ELSE IF data = NoItem \/ data[1] = "empty" THEN EmptyList
        ELSE IF data[1] \notin JsonKinds THEN EmptyList
        ELSE parseFavorites(data)

\* the first index of items whose element has this id, 0 if none; reading .id
\* of a null element is a TypeError
IndexOfId(items, articleId) ==
    LET hits == {i \in 1..Len(items) : items[i] # Null /\ items[i].id = articleId}
    IN  IF hits = {} THEN 0 ELSE CHOOSE i \in hits : \A j \in hits : i <= j

\* favorites.find / favorites.some (f => f.id ... articleId) throws a TypeError:
\* favorites is not an array, or a null element is visited before a match
SearchThrows(favorites, articleId) ==
    \/ favorites.kind # "array"
    \/ LET m == IndexOfId(favorites.items, articleId)
           last == IF m = 0 THEN Len(favorites.items) ELSE m
       IN  \E i \in 1..last : favorites.items[i] = Null

\* favorites.filter / favorites.map (f => f.id ...) throws a TypeError
VisitAllThrows(favorites) ==
    \/ favorites.kind # "array"
    \/ \E i \in 1..Len(favorites.items) : favorites.items[i] = Null

\* a faulty variant: the record is pushed without looking for the id
saveFavoriteAlways(storage, articleId, t, access) ==
    LET favorites == getFavorites(storage, access)
    IN  IF favorites.kind # "array" \/ access # "ok"
        THEN [returns |-> FALSE, storage |-> storage]
        ELSE [returns |-> TRUE,
              storage |-> [storage EXCEPT !.favorites = stringifyFavorites(
                  Append(favorites.items, [id |-> articleId, savedAt |-> toISOString(t)]))]]

\* saveFavorite(articleId) at clock reading t
saveFavorite(storage, articleId, t, access) ==
    LET favorites == getFavorites(storage, access)
    IN  IF SearchThrows(favorites, articleId)
        THEN [returns |-> FALSE, storage |-> storage]
        ELSE IF IndexOfId(favorites.items, articleId) # 0
        THEN [returns |-> FALSE, storage |-> storage]
        ELSE IF access # "ok"
        THEN [returns |-> FALSE, storage |-> storage]
        ELSE [returns |-> TRUE,
              storage |-> [storage EXCEPT !.favorites = stringifyFavorites(
                  Append(favorites.items, [id |-> articleId, savedAt |-> toISOString(t)]))]]

\* a faulty variant: only the first record of the id is taken out, and the call
\* reports whether there was one
removeFavoriteIfPresent(storage, articleId, access) ==
    LET favorites == getFavorites(storage, access)
        m == IndexOfId(favorites.items, articleId)
    IN  IF VisitAllThrows(favorites) \/ access # "ok" \/ m = 0
        THEN [returns |-> FALSE, storage |-> storage]
        ELSE [returns |-> TRUE,
              storage |-> [storage EXCEPT !.favorites = stringifyFavorites(
                  KeepAt(favorites.items, (1..Len(favorites.items)) \ {m}, 1))]]

\* removeFavorite(articleId)
removeFavorite(storage, articleId, access) ==
    LET favorites == getFavorites(storage, access)
    IN  IF VisitAllThrows(favorites)
        THEN [returns |-> FALSE, storage |-> storage]
        ELSE IF access # "ok"
        THEN [returns |-> FALSE, storage |-> storage]
        ELSE [returns |-> TRUE,
              storage |-> [storage EXCEPT !.favorites = stringifyFavorites(
                  KeepAt(favorites.items,
                         {i \in 1..Len(favorites.items) : favorites.items[i].id # articleId},
                         1))]]

\* isFavorite(articleId): no try around the search
isFavorite(storage, articleId, access) ==
    LET favorites == getFavorites(storage, access)
    IN  IF SearchThrows(favorites, articleId)
        THEN [throws |-> TRUE, returns |-> FALSE]
        ELSE [throws |-> FALSE, returns |-> IndexOfId(favorites.items, articleId) # 0]

\* clearFavorites()
clearFavorites(storage, access) ==
    IF access = "SecurityError"
    THEN [returns |-> FALSE, storage |-> storage]
    ELSE [returns |-> TRUE, storage |-> [storage EXCEPT !.favorites = NoItem]]

\* filterArticles(articles, categoryId): no try around the favorites branch.
\* The result holds the same article objects: at lists their positions in
\* articles ('all' returns articles itself).
filterArticles(articles, categoryId, storage, access) ==
    LET favorites == getFavorites(storage, access)
        keep == IF categoryId = "all" THEN 1..Len(articles)
                ELSE IF categoryId = "favorites"
                THEN {i \in 1..Len(articles) :
                         \E k \in 1..Len(favorites.items) :
                             favorites.items[k].id = articles[i].id}
                ELSE {i \in 1..Len(articles) : articles[i].category = categoryId}
    IN  IF categoryId = "favorites" /\ VisitAllThrows(favorites)
        THEN [throws |-> TRUE, at |-> <<>>, articles |-> <<>>]
        ELSE [throws |-> FALSE,
              at |-> KeepAt([i \in 1..Len(articles) |-> i], keep, 1),
              articles |-> KeepAt(articles, keep, 1)]

(***************************************************************************)
(* The Favorites Store on its own: the three writing operations called in  *)
(* any order on a store that starts empty, under every storage outcome.    *)
(***************************************************************************)
FavoriteIds == { <<"m","o","c","k","-","1">>, <<"m","o","c","k","-","2">>, <<"m","o","c","k","-","3">> }

SaveFavorite(articleId, access) ==
    LET r == saveFavorite(localStorage, articleId, now, access)
    IN  /\ localStorage' = r.storage
        /\ probe' = [op |-> "saveFavorite", id |-> articleId, access |-> access,
                     before |-> localStorage.favorites, out |-> r.returns,
                     throws |-> FALSE]
        /\ UNCHANGED <<now, pc, feeds, rawArticles, result, written, app>>

RemoveFavorite(articleId, access) ==
    LET r == removeFavorite(localStorage, articleId, access)
    IN  /\ localStorage' = r.storage
        /\ probe' = [op |-> "removeFavorite", id |-> articleId, access |-> access,
                     before |-> localStorage.favorites, out |-> r.returns,
                     throws |-> FALSE]
        /\ UNCHANGED <<now, pc, feeds, rawArticles, result, written, app>>

ClearFavorites(access) ==
    LET r == clearFavorites(localStorage, access)
    IN  /\ localStorage' = r.storage
        /\ probe' = [op |-> "clearFavorites", id |-> <<>>, access |-> access,
                     before |-> localStorage.favorites, out |-> r.returns,
                     throws |-> FALSE]
        /\ UNCHANGED <<now, pc, feeds, rawArticles, result, written, app>>

FavoritesNext ==
    \/ \E articleId \in FavoriteIds, access \in WriteOutcomes : SaveFavorite(articleId, access)
    \/ \E articleId \in FavoriteIds, access \in WriteOutcomes : RemoveFavorite(articleId, access)
    \/ \E access \in WriteOutcomes : ClearFavorites(access)
    \/ Tick /\ UNCHANGED <<app, probe>>

FavoritesSpec == Init /\ [][FavoritesNext]_vars

(***************************************************************************)
(* Claims about the Favorites Store.                                       *)
(***************************************************************************)
\* the elements of the list stored under the favorites key, none when absent
StoredItems(data) == IF data = NoItem THEN <<>> ELSE data[2]

HasId(items, articleId) == \E i \in 1..Len(items) : items[i][1] = articleId

WithoutId(items, articleId) ==
    KeepAt(items, {i \in 1..Len(items) : items[i][1] # articleId}, 1)

\* C14: starting from an empty store, after any sequence of saveFavorite,
\* removeFavorite and clearFavorites calls the stored favorites never hold two
\* records with the same id.
C14_UniqueIds ==
    LET items == StoredItems(localStorage.favorites)
    IN  \A i, j \in 1..Len(items) : i # j => items[i][1] # items[j][1]

\* saveFavorite was called for an id the store already held, next to another one
C14_Witness ==
    /\ probe.op = "saveFavorite"
    /\ probe.access = "ok"
    /\ HasId(StoredItems(probe.before), probe.id)
    /\ Len(StoredItems(localStorage.favorites)) >= 2

\* what C15 says of saveFavorite, for the last call
SaveAsClaimed ==
    LET before == StoredItems(probe.before)
        after  == StoredItems(localStorage.favorites)
    IN  IF HasId(before, probe.id)
        THEN ~probe.out /\ localStorage.favorites = probe.before
        ELSE /\ probe.out
             /\ Len(after) = Len(before) + 1
             /\ SubSeq(after, 1, Len(before)) = before
             /\ after[Len(after)][1] = probe.id

\* what C15 says of removeFavorite, for the last call
RemoveAsClaimed ==
    LET before == StoredItems(probe.before)
        after  == StoredItems(localStorage.favorites)
    IN  /\ probe.out
        /\ after = WithoutId(before, probe.id)

\* C15 as stated: saveFavorite(id) returns true and appends one record for id
\* when id was absent, returns false and changes nothing when it was present;
\* removeFavorite(id) returns true and leaves the other records, in order.
C15_Original ==
    /\ probe.op = "saveFavorite" => SaveAsClaimed
    /\ probe.op = "removeFavorite" => RemoveAsClaimed

\* C15, amended: the same, for calls during which the storage works.
C15_AddRemoveSemantics ==
    /\ probe.op = "saveFavorite" /\ probe.access = "ok" => SaveAsClaimed
    /\ probe.op = "removeFavorite" /\ probe.access = "ok" => RemoveAsClaimed

\* remove(X) after add(X); add(X) on an empty store left an empty list
C15_Witness ==
    /\ probe.op = "removeFavorite"
    /\ probe.access = "ok"
    /\ Len(StoredItems(probe.before)) = 1
    /\ HasId(StoredItems(probe.before), probe.id)
    /\ probe.out
    /\ StoredItems(localStorage.favorites) = <<>>

(***************************************************************************)
(* The Favorites Store over a favorites key that holds any text: every     *)
(* operation of the store, and the favorites branch of filterArticles.     *)
(***************************************************************************)
SavedRecord(articleId) == <<articleId, toISOString(0)>>

\* texts under the favorites key: absent, the empty text, not JSON, JSON that
\* is no list, lists of records, lists with a null in them
FavoritesContents ==
    { NoItem, <<"empty", <<>>>>, <<"text", <<>>>>, <<"null", <<>>>>,
      <<"object", <<>>>>, <<"number", <<>>>>,
      <<"array", <<>>>>,
      <<"array", <<SavedRecord(<<"m","o","c","k","-","1">>)>>>>,
      <<"array", <<SavedRecord(<<"m","o","c","k","-","1">>), SavedRecord(<<"m","o","c","k","-","2">>)>>>>,
      <<"array", <<SavedRecord(<<"m","o","c","k","-","1">>), <<>>>>>>,
      <<"array", <<<<>>, SavedRecord(<<"m","o","c","k","-","1">>)>>>> }

AnyFavoritesInit ==
    /\ now = 0
    /\ localStorage \in {[cache |-> NoItem, favorites |-> c] : c \in FavoritesContents}
    /\ pc = "idle"
    /\ feeds = [s \in Feeds |-> FeedIdle]
    /\ rawArticles = <<>>
    /\ result = NoResult
    /\ written = NotWritten
    /\ app = AppUnloaded
    /\ probe = NoProbe

GetFavorites(access) ==
    /\ probe' = [op |-> "getFavorites", id |-> <<>>, access |-> access,
                 before |-> localStorage.favorites,
                 out |-> getFavorites(localStorage, access), throws |-> FALSE]
    /\ UNCHANGED <<pipelineVars, app>>

IsFavorite(articleId, access) ==
    LET r == isFavorite(localStorage, articleId, access)
    IN  /\ probe' = [op |-> "isFavorite", id |-> articleId, access |-> access,
                     before |-> localStorage.favorites,
                     out |-> r.returns, throws |-> r.throws]
        /\ UNCHANGED <<pipelineVars, app>>

\* filterArticles(articles, 'favorites') on the sample articles
FilterFavorites(access) ==
    LET r == filterArticles(getMockArticles(0), "favorites", localStorage, access)
    IN  /\ probe' = [op |-> "filterArticles", id |-> <<>>, access |-> access,
                     before |-> localStorage.favorites,
                     out |-> [i \in 1..Len(r.articles) |-> r.articles[i].id],
                     throws |-> r.throws]
        /\ UNCHANGED <<pipelineVars, app>>

AnyFavoritesNext ==
    \/ \E articleId \in FavoriteIds, access \in WriteOutcomes : SaveFavorite(articleId, access)
    \/ \E articleId \in FavoriteIds, access \in WriteOutcomes : RemoveFavorite(articleId, access)
    \/ \E access \in WriteOutcomes : ClearFavorites(access)
    \/ \E access \in WriteOutcomes : GetFavorites(access)
    \/ \E articleId \in FavoriteIds, access \in WriteOutcomes : IsFavorite(articleId, access)
    \/ \E access \in WriteOutcomes : FilterFavorites(access)

AnyFavoritesSpec == AnyFavoritesInit /\ [][AnyFavoritesNext]_vars

FavoritesOps ==
    {"saveFavorite", "removeFavorite", "getFavorites", "isFavorite",
     "clearFavorites", "filterArticles"}

\* C16: whatever the favorites key holds and whatever the storage does, no
\* favorites operation lets an exception out to its caller, and getFavorites
\* returns a list.
C16_NeverPropagates ==
    probe.op \in FavoritesOps =>
        /\ ~probe.throws
        /\ probe.op = "getFavorites" => probe.out.kind = "array"

(***************************************************************************)
(* The page (script.js).  app.allArticles is the array loadFeeds returned, *)
(* app.displayedArticles lists positions in it: both arrays hold the same  *)
(* article objects.  app.cards is the content of the news grid, one card   *)
(* per displayed article with its id and the state of its star button.     *)
(* (updateLastVisit writes the preferences key only: left out.)            *)
(***************************************************************************)
showLoadingState(a) ==
    [a EXCEPT !.loadingHidden = FALSE, !.errorHidden = TRUE,
              !.emptyHidden = TRUE, !.gridDisplay = "none"]

hideLoadingState(a) ==
    [a EXCEPT !.loadingHidden = TRUE, !.gridDisplay = "block"]

\* a faulty variant: the loading section is left as it is
showErrorStateStillLoading(a) ==
    [a EXCEPT !.errorHidden = FALSE, !.emptyHidden = TRUE, !.gridDisplay = "none"]

showErrorState(a) ==
    [a EXCEPT !.loadingHidden = TRUE, !.errorHidden = FALSE,
              !.emptyHidden = TRUE, !.gridDisplay = "none"]

\* the two texts of the empty message
showEmptyState(a) ==
    [a EXCEPT !.emptyHidden = FALSE, !.gridDisplay = "none",
              !.emptyMessageText =
                  IF a.currentFilter = "favorites" THEN "no favorites yet"
                  ELSE "no articles for this category"]

hideEmptyState(a) ==
    [a EXCEPT !.emptyHidden = TRUE, !.gridDisplay = "block"]

createNewsCard(article) == [id |-> article.id, active |-> article.isFavorite]

renderNewsGrid(a) ==
    IF Len(a.displayedArticles) = 0
    THEN showEmptyState([a EXCEPT !.cards = <<>>])
    ELSE [hideEmptyState(a) EXCEPT !.cards =
             [k \in 1..Len(a.displayedArticles) |->
                 createNewsCard(a.allArticles[a.displayedArticles[k]])]]

\* applyFilter(categoryId); when filterArticles throws only currentFilter has
\* been assigned
applyFilter(a, categoryId, storage, access) ==
    LET filtered == filterArticles(a.allArticles, categoryId, storage, access)
    IN  IF filtered.throws THEN [a EXCEPT !.currentFilter = categoryId]
        ELSE renderNewsGrid([a EXCEPT !.currentFilter = categoryId,
                                      !.displayedArticles = filtered.at])

\* allArticles.find(a => a.id === articleId), 0 for undefined
FindArticle(articles, articleId) ==
    LET hits == {i \in 1..Len(articles) : articles[i].id = articleId}
    IN  IF hits = {} THEN 0 ELSE CHOOSE i \in hits : \A j \in hits : i <= j

\* a faulty variant: the flag and the star are switched whatever the store
\* function returns
toggleFavoriteUnchecked(a, storage, k, t, access) ==
    LET articleId == a.cards[k].id
        i == FindArticle(a.allArticles, articleId)
    IN  IF i = 0 THEN [app |-> a, storage |-> storage]
        ELSE IF a.allArticles[i].isFavorite
        THEN LET removed == removeFavorite(storage, articleId, access)
                 unstarred == [a EXCEPT !.allArticles[i].isFavorite = FALSE,
                                        !.cards[k].active = FALSE]
             IN  [app |-> IF a.currentFilter = "favorites"
                          THEN applyFilter(unstarred, "favorites", removed.storage, access)
                          ELSE unstarred,
                  storage |-> removed.storage]
        ELSE LET saved == saveFavorite(storage, articleId, t, access)
             IN  [app |-> [a EXCEPT !.allArticles[i].isFavorite = TRUE,
                                    !.cards[k].active = TRUE],
                  storage |-> saved.storage]

\* a faulty variant: the favorites view is not rendered again after a removal
toggleFavoriteNoRefresh(a, storage, k, t, access) ==
    LET articleId == a.cards[k].id
        i == FindArticle(a.allArticles, articleId)
    IN  IF i = 0 THEN [app |-> a, storage |-> storage]
        ELSE IF a.allArticles[i].isFavorite
        THEN LET removed == removeFavorite(storage, articleId, access)
             IN  IF ~removed.returns THEN [app |-> a, storage |-> removed.storage]
                 ELSE [app |-> [a EXCEPT !.allArticles[i].isFavorite = FALSE,
                                         !.cards[k].active = FALSE],
                       storage |-> removed.storage]
        ELSE LET saved == saveFavorite(storage, articleId, t, access)
             IN  IF ~saved.returns THEN [app |-> a, storage |-> saved.storage]
                 ELSE [app |-> [a EXCEPT !.allArticles[i].isFavorite = TRUE,
                                         !.cards[k].active = TRUE],
                       storage |-> saved.storage]

\* toggleFavorite(articleId, button) at clock reading t, button being the star
\* of card k: the page and the storage after the handler
toggleFavorite(a, storage, k, t, access) ==
    LET articleId == a.cards[k].id
        i == FindArticle(a.allArticles, articleId)
    IN  IF i = 0 THEN [app |-> a, storage |-> storage]
        ELSE IF a.allArticles[i].isFavorite
        THEN LET removed == removeFavorite(storage, articleId, access)
                 unstarred == [a EXCEPT !.allArticles[i].isFavorite = FALSE,
                                        !.cards[k].active = FALSE]
             IN  IF ~removed.returns THEN [app |-> a, storage |-> removed.storage]
                 ELSE [app |-> IF a.currentFilter = "favorites"
                               THEN applyFilter(unstarred, "favorites",
                                                removed.storage, access)
                               ELSE unstarred,
                       storage |-> removed.storage]
        ELSE LET saved == saveFavorite(storage, articleId, t, access)
             IN  IF ~saved.returns THEN [app |-> a, storage |-> saved.storage]
                 ELSE [app |-> [a EXCEPT !.allArticles[i].isFavorite = TRUE,
                                         !.cards[k].active = TRUE],
                       storage |-> saved.storage]

\* the position of the first article at which the forEach of initApp throws a
\* TypeError, 0 if it runs through: the article is null, or favorites.some throws
OverlayThrowsAt(articles, favorites) ==
    LET bad == {i \in 1..Len(articles) :
                   \/ articles[i] = Null
                   \/ SearchThrows(favorites, articles[i].id)}
    IN  IF bad = {} THEN 0 ELSE CHOOSE i \in bad : \A j \in bad : i <= j

\* article.isFavorite = favorites.some(f => f.id === article.id), for the
\* articles before position upto
Overlay(articles, favorites, upto) ==
    [i \in 1..Len(articles) |->
        IF i < upto
        THEN [articles[i] EXCEPT !.isFavorite =
                 IndexOfId(favorites.items, articles[i].id) # 0]
        ELSE articles[i]]

\* DOMContentLoaded: initApp up to its await, with the call of loadFeeds
InitApp ==
    /\ app.pc # "loading"
    /\ LoadFeedsCacheHit \/ LoadFeedsStart
    /\ app' = showLoadingState([AppUnloaded EXCEPT !.pc = "loading"])
    /\ UNCHANGED probe

\* a faulty variant: the marked articles are written back to the cache
InitAppResumeRecaching(access) ==
    /\ app.pc = "loading"
    /\ pc = "done"
    /\ result.status = "returned"
    /\ LET favorites == getFavorites(localStorage, access)
           marked == [app EXCEPT !.allArticles =
                         Overlay(result.articles, favorites, Len(result.articles) + 1)]
           shown == [marked EXCEPT
                         !.displayedArticles = [i \in 1..Len(result.articles) |-> i],
                         !.filtersInitialized = TRUE]
       IN  /\ app' = hideLoadingState(renderNewsGrid([shown EXCEPT !.pc = "ready"]))
           /\ localStorage' =
                  cacheArticles(localStorage, marked.allArticles, now, now, "ok").storage
    /\ pc' = "idle"
    /\ feeds' = [s \in Feeds |-> FeedIdle]
    /\ rawArticles' = <<>>
    /\ result' = NoResult
    /\ UNCHANGED <<now, written, probe>>

\* initApp after the await: loadFeeds has returned or thrown, and its call frame
\* is gone
InitAppResume(access) ==
    /\ app.pc = "loading"
    /\ pc = "done"
    /\ LET favorites == getFavorites(localStorage, access)
           stop == OverlayThrowsAt(result.articles, favorites)
           marked == [app EXCEPT !.allArticles =
                         Overlay(result.articles, favorites,
                                 IF stop = 0 THEN Len(result.articles) + 1 ELSE stop)]
           shown == [marked EXCEPT
                         !.displayedArticles = [i \in 1..Len(result.articles) |-> i],
                         !.filtersInitialized = TRUE]
       IN  app' = IF result.status = "thrown"
                  THEN showErrorState([app EXCEPT !.pc = "error"])
                  ELSE IF stop # 0
                  THEN showErrorState([marked EXCEPT !.pc = "error"])
                  ELSE hideLoadingState(renderNewsGrid([shown EXCEPT !.pc = "ready"]))
    /\ pc' = "idle"
    /\ feeds' = [s \in Feeds |-> FeedIdle]
    /\ rawArticles' = <<>>
    /\ result' = NoResult
    /\ UNCHANGED <<now, localStorage, written, probe>>

\* a click on a filter button
ApplyFilter(categoryId, access) ==
    /\ app.filtersInitialized
    /\ app' = applyFilter(app, categoryId, localStorage, access)
    /\ UNCHANGED <<pipelineVars, probe>>

\* the articles whose star is clicked: the first MaxStarred of allArticles
MaxStarred == 2

\* the store is not grown beyond MaxFavorites records
MaxFavorites == 2

\* a click on the star of card k
ToggleFavorite(k, access) ==
    /\ app.pc = "ready"
    /\ k \in 1..Len(app.cards)
    /\ app.displayedArticles[k] <= MaxStarred
    /\ \/ app.allArticles[app.displayedArticles[k]].isFavorite
       \/ Len(StoredItems(localStorage.favorites)) < MaxFavorites
    /\ LET toggled == toggleFavorite(app, localStorage, k, now, access)
       IN  /\ app' = toggled.app
           /\ localStorage' = toggled.storage
    /\ UNCHANGED <<now, pc, feeds, rawArticles, result, written, probe>>

\* the buttons of the filter bar that are clicked
FilterChoices == {"all", "favorites", "ai-design-tools"}

\* the network and the clock: time passes between the handlers; the sources
\* answer one after the other in the configured order, on the first tier only,
\* and sources 1 and 2 cannot be reached
AppNetwork ==
    /\ \A s, r \in Feeds :
          r < s /\ feeds[r].pc # "settled" => feeds[s] = fetchFeedStart(FeedIdle)
    /\ \A s \in Feeds : feeds[s].pc # "secondary_json"
    /\ \A s \in {1, 2} : feeds[s].pc # "primary_json"

AppNext ==
    \/ InitApp
    \/ \E s \in Feeds : PrimaryResponse(s) /\ AppNetwork' /\ UNCHANGED <<app, probe>>
    \/ \E s \in Feeds : PrimaryJson(s) /\ AppNetwork' /\ UNCHANGED <<app, probe>>
    \/ \E s \in Feeds : SecondaryResponse(s) /\ AppNetwork' /\ UNCHANGED <<app, probe>>
    \/ LoadFeedsFallback /\ UNCHANGED <<app, probe>>
    \/ LoadFeedsThrow /\ UNCHANGED <<app, probe>>
    \/ LoadFeedsProcess /\ UNCHANGED <<app, probe>>
    \/ \E access \in WriteOutcomes : InitAppResume(access)
    \/ \E categoryId \in FilterChoices, access \in WriteOutcomes :
          ApplyFilter(categoryId, access)
    \/ \E k \in 1..Len(app.cards), access \in WriteOutcomes : ToggleFavorite(k, access)
    \/ Tick /\ app.pc # "loading" /\ UNCHANGED <<app, probe>>

AppSpec == Init /\ [][AppNext]_vars

(***************************************************************************)
(* Claims about the page and the stores.                                   *)
(***************************************************************************)
CachedArticles ==
    IF localStorage.cache = NoItem \/ Len(localStorage.cache) # 3 THEN <<>>
    ELSE parseCache(localStorage.cache).articles

\* C20: every article in the cache entry has isFavorite = false, and the steps
\* of the page other than the call of loadFeeds (the overlay of initApp, filter
\* clicks, star clicks) leave the cache key as it is.
C20_FavoriteIsTransient ==
    /\ [](\A i \in 1..Len(CachedArticles) : ~CachedArticles[i].isFavorite)
    /\ [][app'.pc # "loading" => localStorage'.cache = localStorage.cache]_vars

\* an article is starred in memory and in the store while its cached copy is not
C20_Witness ==
    /\ app.pc = "ready"
    /\ \E i \in 1..Len(app.allArticles), j \in 1..Len(CachedArticles) :
          /\ app.allArticles[i].isFavorite
          /\ HasId(StoredItems(localStorage.favorites), app.allArticles[i].id)
          /\ CachedArticles[j].id = app.allArticles[i].id
          /\ ~CachedArticles[j].isFavorite

(***************************************************************************)
(* The cache key holding any text: getCachedArticles called directly and   *)
(* through loadFeeds by initApp.                                           *)
(***************************************************************************)
\* getCachedArticles() when getItem may throw: the catch returns null
getCachedArticlesUnder(storage, t, access) ==
    IF access = "SecurityError"
    THEN [isNull |-> TRUE, articles |-> <<>>, storage |-> storage]
    ELSE getCachedArticles(storage, t)

\* texts under the cache key: absent, the empty text, not JSON, JSON that is no
\* entry, an entry without articles, entries whose list holds a null (valid and
\* expired), a well-formed entry
CacheContents ==
    { NoItem, <<"empty", <<>>>>, <<"text", <<>>>>, <<"null", <<>>>>,
      <<"number", <<>>>>, <<"object", <<>>>>, <<"noarticles", CACHE_DURATION>>,
      <<0, << <<>> >>, CACHE_DURATION>>,
      <<0, << <<>> >>, 0>>,
      stringifyCache([timestamp |-> 0,
                      articles |-> <<ProbeArticle(<<"A","I">>, <<>>)>>,
                      expiresAt |-> CACHE_DURATION]) }

AnyCacheInit ==
    /\ now = 0
    /\ localStorage \in {[cache |-> c, favorites |-> NoItem] : c \in CacheContents}
    /\ pc = "idle"
    /\ feeds = [s \in Feeds |-> FeedIdle]
    /\ rawArticles = <<>>
    /\ result = NoResult
    /\ written = NotWritten
    /\ app = AppUnloaded
    /\ probe = NoProbe

GetCachedArticles(access) ==
    LET cached == getCachedArticlesUnder(localStorage, now, access)
    IN  /\ localStorage' = cached.storage
        /\ probe' = [op |-> "getCachedArticles", access |-> access,
                     before |-> localStorage.cache, isNull |-> cached.isNull,
                     out |-> cached.articles, throws |-> FALSE]
        /\ UNCHANGED <<now, pc, feeds, rawArticles, result, written, app>>

AnyCacheNext ==
    \/ \E access \in WriteOutcomes : GetCachedArticles(access)
    \/ InitApp
    \/ \E s \in Feeds : PrimaryResponse(s) /\ AppNetwork' /\ UNCHANGED <<app, probe>>
    \/ \E s \in Feeds : PrimaryJson(s) /\ AppNetwork' /\ UNCHANGED <<app, probe>>
    \/ \E s \in Feeds : SecondaryResponse(s) /\ AppNetwork' /\ UNCHANGED <<app, probe>>
    \/ LoadFeedsFallback /\ UNCHANGED <<app, probe>>
    \/ LoadFeedsThrow /\ UNCHANGED <<app, probe>>
    \/ LoadFeedsProcess /\ UNCHANGED <<app, probe>>
    \/ \E access \in WriteOutcomes : InitAppResume(access)

AnyCacheSpec == AnyCacheInit /\ [][AnyCacheNext]_vars

NoNullIn(articles) == \A i \in 1..Len(articles) : articles[i] # Null

\* C17: whatever the cache key holds and whether or not the read works,
\* getCachedArticles throws nothing and returns no malformed list, loadFeeds
\* returns none, and none becomes allArticles.
C17_CacheIsTotal ==
    /\ probe.op = "getCachedArticles" => ~probe.throws /\ NoNullIn(probe.out)
    /\ pc = "done" /\ result.status = "returned" => NoNullIn(result.articles)
    /\ NoNullIn(app.allArticles)

(***************************************************************************)
(* Claims about what the page shows.                                       *)
(***************************************************************************)
\* the error section alone, no handlers on the filter buttons, an empty grid
ErrorView ==
    /\ ~app.errorHidden
    /\ app.loadingHidden
    /\ app.emptyHidden
    /\ app.gridDisplay = "none"
    /\ ~app.filtersInitialized
    /\ app.cards = <<>>

\* C21: when loadFeeds has thrown, initApp ends in the error state: the error
\* section shown, the loading section, the empty section and the grid hidden,
\* no filter handler installed, nothing rendered; when loadFeeds has returned,
\* whatever sources failed, initApp does not end in the error state.
C21_ErrorState ==
    /\ [](app.pc = "error" => ErrorView)
    /\ [][app.pc = "loading" /\ app'.pc # "loading" =>
             /\ result.status = "thrown" => app'.pc = "error"
             /\ result.status = "returned" => app'.pc = "ready"]_vars

\* initApp has ended in the error state
C21_Witness == app.pc = "error" /\ ErrorView

\* the number of the four views that are visible
VisibleViews ==
    Cardinality({v \in {"loading", "error", "grid", "empty"} :
        \/ v = "loading" /\ ~app.loadingHidden
        \/ v = "error" /\ ~app.errorHidden
        \/ v = "grid" /\ app.gridDisplay = "block"
        \/ v = "empty" /\ ~app.emptyHidden})

\* C22: once initApp has started, exactly one of the loading section, the error
\* section, the grid container and the empty message is visible, and a visible
\* empty message has the favorites text exactly when currentFilter is
\* 'favorites'.
C22_OneVisibleState ==
    app.pc # "unloaded" =>
        /\ VisibleViews = 1
        /\ ~app.emptyHidden =>
              (app.emptyMessageText = "no favorites yet"
                  <=> app.currentFilter = "favorites")

\* link || guid of the raw items the sources can deliver
KnownKeys == {Or(r.link, r.guid) : r \in KnownRawItems}

\* generateArticleId(link || guid || ''), tabulated
IdOfKey == [k \in KnownKeys |-> generateArticleId(k)]

\* normalizeArticle(raw).id at each clock reading, tabulated
NormalizedId ==
    [raw \in {r \in KnownRawItems : ~normalizeThrows(r)} |->
        [t \in Times |-> normalizeArticle(raw, t).id]]

IdFromLinkOnly ==
    \A raw \in DOMAIN NormalizedId : \A t \in Times :
        NormalizedId[raw][t] = IdOfKey[Or(raw.link, raw.guid)]

IsMockArticle(a) == \E i \in 1..Len(getMockArticles(0)) : getMockArticles(0)[i].id = a.id

\* the key an article of the page was built from (its link, '#' standing for none)
KeyOf(a) == IF a.link = <<"#">> THEN <<>> ELSE a.link

FeedArticleIds(articles) ==
    \A i \in 1..Len(articles) :
        articles[i] # Null /\ ~IsMockArticle(articles[i]) =>
            /\ KeyOf(articles[i]) \in KnownKeys
            /\ articles[i].id = IdOfKey[KeyOf(articles[i])]

Marked(articles) ==
    \A i \in 1..Len(articles) :
        HasId(StoredItems(localStorage.favorites), articles[i].id) => articles[i].isFavorite

Unmarked(articles) == \A i \in 1..Len(articles) : ~articles[i].isFavorite

DescriptionText(raw) == DecodeEntities(StripTags(Or(raw.description, raw.content)))

\* the raw items whose title and whose description text hold no AI keyword
KeywordFreeRaw ==
    {r \in KnownRawItems :
        /\ ~normalizeThrows(r)
        /\ ~SomeKeyword(AI_KEYWORDS, toLowerCase(r.title))
        /\ ~SomeKeyword(AI_KEYWORDS, toLowerCase(DescriptionText(r)))}

FromKeywordFreeRaw(a) == \E r \in KeywordFreeRaw : ProcessedFrom(a, r)

\* C24: a raw item whose title and whose description text (tags stripped,
\* entities decoded) hold none of the AI keywords, an empty or missing description
\* included, has no entry in the collection loadFeeds returns nor in the cache.
C24_RelevanceGateOnRaw ==
    /\ (pc = "done" /\ result.via = "feeds") =>
           \A k \in 1..Len(result.articles) : ~FromKeywordFreeRaw(result.articles[k])
    /\ \A k \in 1..Len(CachedArticles) : ~FromKeywordFreeRaw(CachedArticles[k])

\* a.isFavorite is true iff the Favorites Store holds a record with a's id
FlagsAgree(articles) ==
    \A i \in 1..Len(articles) :
        articles[i].isFavorite <=> HasId(StoredItems(localStorage.favorites), articles[i].id)

Filtered == filterArticles(app.allArticles, app.currentFilter, localStorage, "ok").at

SameResponse(s, items, t) ==
    IF items \in ItemPayloads(s) THEN {items}
    ELSE {parseXMLFeed(d, u) : d \in {x \in XmlDocs(s) : \E v \in Times : parseXMLFeed(x, v) = items},
                               u \in {v \in Times : v <= t}}

\* what source s contributes for the same response settled at a clock reading
\* up to t
SameContribution(s, t) ==
    IF feeds[s].status = "fulfilled" /\ ~feeds[s].isNull
    THEN SameResponse(s, feeds[s].items, t)
    ELSE {<<>>}

\* the arrays loadFeeds collects, from source s on, from the same responses when
\* the sources settle at other clock readings up to t
RECURSIVE SameResponsesFrom(_, _)
SameResponsesFrom(s, t) ==
    IF s > Len(RSS_FEEDS) THEN {<<>>}
    ELSE {first \o rest : first \in SameContribution(s, t),
                          rest \in SameResponsesFrom(s + 1, t)}

SameResponses(t) == SameResponsesFrom(1, t)

\* C27: for fixed responses of the sources the collection loadFeeds returns is
\* the same whenever and in whatever order the sources settle: processing the
\* arrays collected from the same responses, settled at other clock readings
\* before the processing, gives the collection that was returned.
C27_OrderIndependent ==
    (pc = "done" /\ result.via = "feeds") =>
        \A t \in {u \in Times : u <= now /\ result.articles \in ProcessTable[rawArticles][u]} :
            \A other \in SameResponses(t) :
                ProcessTable[other][t] = ProcessTable[rawArticles][t]

\* the raw items the sources resolved to, joined in the configured source order
InSourceOrder ==
    Flatten([s \in Feeds |-> IF Delivering(s) THEN feeds[s].items ELSE <<>>])

\* raw item i of source s is the first of its link in the configured order
EarliestOfLink(s, i) ==
    /\ \A r \in 1..(s - 1) :
          Delivering(r) =>
              \A j \in 1..Len(feeds[r].items) :
                  LinkOf(feeds[r].items[j]) # LinkOf(feeds[s].items[i])
    /\ \A j \in 1..(i - 1) : LinkOf(feeds[s].items[j]) # LinkOf(feeds[s].items[i])

\* C27 amended: in whatever order the sources settled, the collection loadFeeds
\* returns and caches is the processed form of the raw items the sources resolved
\* to, joined in the configured source order, and every entry comes from the
\* earliest configured source that has its link.
C27_SourceOrder ==
    (pc = "done" /\ result.via = "feeds") =>
        /\ rawArticles = InSourceOrder
        /\ \E t \in {u \in Times : u <= now} :
              result.articles \in ProcessTable[InSourceOrder][t]
        /\ result.cached = "ok" => CacheHolds(result.articles)
        /\ \A k \in 1..Len(result.articles) :
              \E s \in {x \in Feeds : Delivering(x)} :
                  \E i \in 1..Len(feeds[s].items) :
                      /\ ProcessedFrom(result.articles[k], feeds[s].items[i])
                      /\ EarliestOfLink(s, i)

\* sources 1 and 2 both delivered an item of one link and the entry returned is
\* the one of source 1
C27_Witness ==
    /\ pc = "done" /\ result.via = "feeds"
    /\ Delivering(1) /\ Delivering(2)
    /\ \E i \in 1..Len(feeds[1].items), j \in 1..Len(feeds[2].items) :
          /\ LinkOf(feeds[1].items[i]) = LinkOf(feeds[2].items[j])
          /\ \E k \in 1..Len(result.articles) :
                /\ ProcessedFrom(result.articles[k], feeds[1].items[i])
                /\ ~ProcessedFrom(result.articles[k], feeds[2].items[j])

\* loadFeeds has just returned the sample set
ReturnedSampleSet == pc = "done" /\ result.via = "mock"

\* C28 as stated: when loadFeeds has returned the sample set the cache key is
\* absent.
C28_Original == ReturnedSampleSet => localStorage.cache = NoItem

\* C28: the return of the sample set writes nothing to the storage; afterwards
\* the cache key is absent or holds the entry with an empty list that was there
\* before, never the sample set; and the next call of loadFeeds starts a fetch of
\* every source.
C28_FallbackNotCached ==
    /\ [](ReturnedSampleSet =>
             /\ \/ localStorage.cache = NoItem
                \/ CachedArticles = <<>>
             /\ ~cacheHit(getCachedArticles(localStorage, now)))
    /\ [][pc = "awaiting" /\ ReturnedSampleSet' =>
             /\ localStorage' = localStorage
             /\ result'.articles = getMockArticles(now)]_vars
    /\ [][ReturnedSampleSet /\ (result' # result \/ feeds' # feeds) =>
             /\ pc' = "awaiting"
             /\ \A s \in Feeds : feeds'[s] = fetchFeedStart(FeedIdle)]_vars

\* the sample set has been returned over a cache entry that holds an empty list
C28_Witness ==
    /\ ReturnedSampleSet
    /\ localStorage.cache # NoItem
    /\ CachedArticles = <<>>

\* the ids of CATEGORIES an article can be given
CategoryIds == {CATEGORIES[c].id : c \in 1..Len(CATEGORIES)} \ {"all", "favorites"}

\* C29: every article of the cache entry passes the relevance gate, has one of
\* the six category ids, and shares its link with no other article of the entry.
C29_CacheClassified ==
    /\ \A k \in 1..Len(CachedArticles) :
          /\ CachedArticles[k] # Null
          /\ isAIRelated(CachedArticles[k])
          /\ CachedArticles[k].category \in CategoryIds
    /\ NoSharedLink(CachedArticles)
    /\ CategoryIds = {"ai-design-tools", "visualization", "automation",
                      "architecture-ai", "interior-design-ai", "industry-news"}

\* the cache entry holds articles of two categories, built from raw items of
\* which one was a duplicate and one was not AI-related
C29_Witness ==
    /\ pc = "done" /\ result.via = "feeds"
    /\ Len(CachedArticles) >= 2
    /\ \E i, j \in 1..Len(CachedArticles) :
          CachedArticles[i].category # CachedArticles[j].category
    /\ Len(rawArticles) >= Len(CachedArticles) + 2
=============================================================================
